---- MODULE Spec2Model ----
(***************************************************************************)
(* A model of the value-coercion engine of pydantic-core: the dict and     *)
(* list validators, the scalar conversions of the JSON-tree input, and the *)
(* date validator with its lax datetime fallback.                          *)
(*                                                                         *)
(* One validation call is one behaviour: Init draws the validator's        *)
(* configuration and the input, the actions walk the input the way the     *)
(* code does, and `result` holds the ValResult the call returns.           *)
(***************************************************************************)
EXTENDS Integers, Sequences, FiniteSets, TLC

VARIABLES
    call,       \* which validator the call runs: "dict", "list", "json", "date"
    pc,         \* position of the call: "start", "iter", "done"
    validator,  \* the validator's fields (strict, min_length, ...)
    extra,      \* Extra of the ValidationState: the per-call strict override
    input,      \* the input value
    idx,        \* number of items pulled from the input's iterator so far
    output,     \* dict.rs:178, the output being built
    errors,     \* dict.rs:179, the line errors collected so far
    calls,      \* the sub-validator invocations made so far, in order
    result,     \* the ValResult returned, once pc = "done"
    stack,      \* the open frames of the call: nested ValidationStates,
                \* rebound-extra guards and descents, innermost last
    recursion_guards  \* the RecursionGuard objects, by reference

vars == <<call, pc, validator, extra, input, idx, output, errors, calls, result,
          stack, recursion_guards>>

----------------------------------------------------------------------------
(* Bounds of the model *)

\* longest mapping / sequence handed to a structural validator
MaxItems == 2

----------------------------------------------------------------------------
(* Option<T>: None is the empty sequence, Some(x) the one-element sequence *)

None == <<>>
Some(x) == <<x>>
IsSome(o) == Len(o) = 1
Unwrap(o) == o[1]
\* Option::unwrap_or
UnwrapOr(o, default) == IF IsSome(o) THEN o[1] ELSE default

(* LocItem: a string segment or an integer segment of a location path *)
LocS(s) == <<"S", s>>
LocI(i) == <<"I", i>>

(* ValLineError: error type, location path (outermost segment first) and,
   for the parsing errors, the parser's message *)
LineError(type, loc) == [type |-> type, loc |-> loc, error |-> ""]

\* ValLineError::with_outer_location: prepend one segment
WithOuterLocation(err, item) == [err EXCEPT !.loc = <<item>> \o err.loc]

(* ValResult: Ok(value) | Err(LineErrors) | Err(Omit) | Err(InternalErr) *)
\* (`origin` tells one internal error from another: who raised it)
Ok(v) == [tag |-> "Ok", value |-> v, errors |-> <<>>, origin |-> ""]
LineErrors(es) == [tag |-> "LineErrors", value |-> <<>>, errors |-> es, origin |-> ""]
Omit == [tag |-> "Omit", value |-> <<>>, errors |-> <<>>, origin |-> ""]
InternalErr(origin) == [tag |-> "InternalErr", value |-> <<>>, errors |-> <<>>, origin |-> origin]
\* ValError::new(error_type, input): one line error with an empty location
ValErrorNew(type) == LineErrors(<<LineError(type, <<>>)>>)
\* no ValResult (yet)
NoResult == [tag |-> "NoResult", value |-> <<>>, errors |-> <<>>, origin |-> ""]
IsNoResult(r) == r.tag = "NoResult"

(* the per-call strict override *)
Overrides == {None, Some(TRUE), Some(FALSE)}
\* (mutant) the validator's own setting wins over the override
strict_or_default_wins(ex, default) == default

\* validation_state.rs:72-74, ValidationState::strict_or
strict_or(ex, default) == UnwrapOr(ex.strict, default)

\* sequence helper
Range(s) == {s[i] : i \in DOMAIN s}

----------------------------------------------------------------------------
(* The JSON-tree input, input/input_json.rs: structural extraction *)

\* JsonInput variants
JsonKinds == {"Null", "Bool", "Int", "Uint", "BigInt", "Float", "String", "Array", "Object"}

\* JsonInput::validate_dict: only an Object is a mapping, whatever `strict`
JsonValidateDict(kind, strict) ==
    IF kind = "Object" THEN Ok(kind) ELSE ValErrorNew("DictType")

----------------------------------------------------------------------------
(* The dict validator, validators/dict.rs *)

\* the keys a mapping's iterator yields, in order (distinct within a mapping)
KeyNames == <<"a", "b", "c", "d">>
\* the output key a normalising key validator maps every input key to
NormKey == "K"

\* what a sub-validator does with an item's key / value
KeyKinds == {"same", "norm", "err", "err2", "omit", "fatal"}
ValueKinds == {"ok", "err", "err2", "omit", "fatal"}

\* One step of the mapping iterator (Item = ValResult<(key, value)>): a pair,
\* tagged with what the two sub-validators make of it, or an error.
MappingItems(k) ==
    { [iter |-> "Ok", key |-> k, kkind |-> kk, vkind |-> vk] :
          kk \in KeyKinds, vk \in ValueKinds }
    \cup { [iter |-> "InternalErr", key |-> k, kkind |-> "same", vkind |-> "ok"] }

\* key_validator.validate(py, key, state): the key unchanged, a normalised
\* key (two input keys may validate to the same output key), one line error,
\* two line errors of a structured key with their inner paths, the omit
\* signal, or a fatal error.
key_validate(item) ==
    CASE item.kkind = "same"  -> Ok(item.key)
      [] item.kkind = "norm"  -> Ok(NormKey)
      [] item.kkind = "err"   -> ValErrorNew("KeyErr")
      [] item.kkind = "err2"  ->
            LineErrors(<<LineError("KeyErr", <<LocI(0)>>),
                         LineError("KeyErr2", <<LocI(1), LocS("z")>>)>>)
      [] item.kkind = "omit"  -> Omit
      [] OTHER                -> InternalErr("key")

\* value_validator.validate(py, value, state): a validated value, one line
\* error, two line errors of a nested value with their inner paths, the omit
\* signal, or a fatal error.
value_validate(item) ==
    CASE item.vkind = "ok"    -> Ok(<<"v", item.key>>)
      [] item.vkind = "err"   -> ValErrorNew("ValueErr")
      [] item.vkind = "err2"  ->
            LineErrors(<<LineError("ValueErr", <<LocS("x")>>),
                         LineError("ValueErr2", <<LocS("x"), LocS("y")>>)>>)
      [] item.vkind = "omit"  -> Omit
      [] OTHER                -> InternalErr("value")

\* String::as_loc_item of a mapping key
as_loc_item(key) == LocS(key)

\* (mutant) the key error is located like a value error: no "[key]" marker
key_line_error_unmarked(key, err) == WithOuterLocation(err, as_loc_item(key))

\* (mutant) the two segments are prepended in the other order
key_line_error_swapped(key, err) ==
    WithOuterLocation(WithOuterLocation(err, as_loc_item(key)), LocS("[key]"))

\* dict.rs:190-197: a key error gets "[key]" and then the key prepended
key_line_error(key, err) ==
    WithOuterLocation(WithOuterLocation(err, LocS("[key]")), as_loc_item(key))

\* dict.rs:206-208: a value error gets the key prepended
value_line_error(key, err) == WithOuterLocation(err, as_loc_item(key))

RECURSIVE key_line_errors(_, _)
key_line_errors(key, es) ==
    IF es = <<>> THEN <<>>
    ELSE <<key_line_error(key, Head(es))>> \o key_line_errors(key, Tail(es))

RECURSIVE value_line_errors(_, _)
value_line_errors(key, es) ==
    IF es = <<>> THEN <<>>
    ELSE <<value_line_error(key, Head(es))>> \o value_line_errors(key, Tail(es))

\* PyDict, a sequence of <<key, value>> pairs with distinct keys in insertion
\* order. PyDict::set_item: replace the value of an equal key, else append
set_item(out, k, v) ==
    IF \E i \in DOMAIN out : out[i][1] = k
    THEN [i \in DOMAIN out |-> IF out[i][1] = k THEN <<k, v>> ELSE out[i]]
    ELSE Append(out, <<k, v>>)
\* PyDict::len
dict_len(out) == Len(out)

\* the outcome of one pass through the loop body
BodyOutcome(out, errs, ran, abort) ==
    [output |-> out, errors |-> errs, ran |-> ran, abort |-> abort]

\* (mutant) fail fast: the first value failure ends the walk with the errors
\* collected so far
validate_value_failfast(item, output_key, out, errs) ==
    LET vr == value_validate(item) IN
    CASE vr.tag = "Ok" ->
            BodyOutcome(IF IsSome(output_key)
                           THEN set_item(out, Unwrap(output_key), vr.value)
                           ELSE out,
                        errs, <<"key", "value">>, NoResult)
      [] vr.tag = "LineErrors" ->
            BodyOutcome(out, errs \o value_line_errors(item.key, vr.errors),
                        <<"key", "value">>,
                        LineErrors(errs \o value_line_errors(item.key, vr.errors)))
      [] vr.tag = "Omit" ->
            BodyOutcome(out, errs, <<"key", "value">>, NoResult)
      [] OTHER ->
            BodyOutcome(out, errs, <<"key", "value">>, vr)

\* (mutant) a fatal error of the value sub-validator is swallowed and the
\* walk goes on
validate_value_swallow_fatal(item, output_key, out, errs) ==
    LET vr == value_validate(item) IN
    CASE vr.tag = "Ok" ->
            BodyOutcome(IF IsSome(output_key)
                           THEN set_item(out, Unwrap(output_key), vr.value)
                           ELSE out,
                        errs, <<"key", "value">>, NoResult)
      [] vr.tag = "LineErrors" ->
            BodyOutcome(out, errs \o value_line_errors(item.key, vr.errors),
                        <<"key", "value">>, NoResult)
      [] OTHER ->
            BodyOutcome(out, errs, <<"key", "value">>, NoResult)

\* (mutant) the value's line errors are put in front of the errors so far
validate_value_errors_first(item, output_key, out, errs) ==
    LET vr == value_validate(item) IN
    CASE vr.tag = "Ok" ->
            BodyOutcome(IF IsSome(output_key)
                           THEN set_item(out, Unwrap(output_key), vr.value)
                           ELSE out,
                        errs, <<"key", "value">>, NoResult)
      [] vr.tag = "LineErrors" ->
            BodyOutcome(out, value_line_errors(item.key, vr.errors) \o errs,
                        <<"key", "value">>, NoResult)
      [] vr.tag = "Omit" ->
            BodyOutcome(out, errs, <<"key", "value">>, NoResult)
      [] OTHER ->
            BodyOutcome(out, errs, <<"key", "value">>, vr)

\* dict.rs:203-216: the value half of the loop body, given the key's outcome
\* (output_key is Some(validated key) or None) and the errors so far
validate_value(item, output_key, out, errs) ==
    LET vr == value_validate(item) IN
    CASE vr.tag = "Ok" ->
            BodyOutcome(IF IsSome(output_key)
                           THEN set_item(out, Unwrap(output_key), vr.value)
                           ELSE out,
                        errs, <<"key", "value">>, NoResult)
      [] vr.tag = "LineErrors" ->
            BodyOutcome(out, errs \o value_line_errors(item.key, vr.errors),
                        <<"key", "value">>, NoResult)
      [] vr.tag = "Omit" ->
            BodyOutcome(out, errs, <<"key", "value">>, NoResult)
      [] OTHER ->
            BodyOutcome(out, errs, <<"key", "value">>, vr)

\* (mutant) a key that returns Omit does not `continue`: the value is
\* validated all the same
validate_item_omit_fallthrough(item, out, errs) ==
    IF item.iter # "Ok"
    THEN BodyOutcome(out, errs, <<>>, InternalErr("iter"))
    ELSE LET kr == key_validate(item) IN
         CASE kr.tag = "Ok" ->
                 validate_value(item, Some(kr.value), out, errs)
           [] kr.tag = "LineErrors" ->
                 validate_value(item, None, out,
                                errs \o key_line_errors(item.key, kr.errors))
           [] kr.tag = "Omit" ->
                 validate_value(item, None, out, errs)
           [] OTHER ->
                 BodyOutcome(out, errs, <<"key">>, kr)

\* (mutant) a key that failed ends the item: its value is not validated
validate_item_key_error_skips(item, out, errs) ==
    IF item.iter # "Ok"
    THEN BodyOutcome(out, errs, <<>>, InternalErr("iter"))
    ELSE LET kr == key_validate(item) IN
         CASE kr.tag = "Ok" ->
                 validate_value(item, Some(kr.value), out, errs)
           [] kr.tag = "LineErrors" ->
                 BodyOutcome(out, errs \o key_line_errors(item.key, kr.errors),
                             <<"key">>, NoResult)
           [] kr.tag = "Omit" ->
                 BodyOutcome(out, errs, <<"key">>, NoResult)
           [] OTHER ->
                 BodyOutcome(out, errs, <<"key">>, kr)

\* dict.rs:184-216: the loop body for one step of the iterator
validate_item(item, out, errs) ==
    IF item.iter # "Ok"
    THEN BodyOutcome(out, errs, <<>>, InternalErr("iter"))
    ELSE LET kr == key_validate(item) IN
         CASE kr.tag = "Ok" ->
                 validate_value(item, Some(kr.value), out, errs)
           [] kr.tag = "LineErrors" ->
                 validate_value(item, None, out,
                                errs \o key_line_errors(item.key, kr.errors))
           [] kr.tag = "Omit" ->
                 BodyOutcome(out, errs, <<"key">>, NoResult)
           [] OTHER ->
                 BodyOutcome(out, errs, <<"key">>, kr)

\* list.rs `length_check!` as used at dict.rs:220: the minimum first, then
\* the maximum, against the size of the object built
length_check(min_length, max_length, len) ==
    IF IsSome(min_length) /\ len < Unwrap(min_length) THEN ValErrorNew("TooShort")
    ELSE IF IsSome(max_length) /\ len > Unwrap(max_length) THEN ValErrorNew("TooLong")
    ELSE NoResult

\* (mutant) the collected errors are not looked at: the output is returned
dict_finish_ignore_errors(v, out, errs) ==
    LET lc == length_check(v.min_length, v.max_length, dict_len(out))
    IN IF IsNoResult(lc) THEN Ok(out) ELSE lc

\* (mutant) the length is checked first, whatever the items did
dict_finish_length_first(v, out, errs) ==
    LET lc == length_check(v.min_length, v.max_length, dict_len(out))
    IN IF ~IsNoResult(lc) THEN lc
       ELSE IF errs = <<>> THEN Ok(out) ELSE LineErrors(errs)

\* (mutant) the length error is added to the item errors
dict_finish_append_length(v, out, errs) ==
    LET lc == length_check(v.min_length, v.max_length, dict_len(out))
    IN IF errs = <<>>
       THEN IF IsNoResult(lc) THEN Ok(out) ELSE lc
       ELSE LineErrors(errs \o lc.errors)

\* dict.rs:219-224: what the call returns once the iterator is exhausted
dict_finish(v, out, errs) ==
    IF errs = <<>>
    THEN LET lc == length_check(v.min_length, v.max_length, dict_len(out))
         IN IF IsNoResult(lc) THEN Ok(out) ELSE lc
    ELSE LineErrors(errs)

\* the length bounds a dict validator is built with
MinLengths == {None, Some(2)}
MaxLengths == {None, Some(1)}

DictValidators ==
    { [type |-> "dict", strict |-> s, min_length |-> mn, max_length |-> mx] :
          s \in BOOLEAN, mn \in MinLengths, mx \in MaxLengths }

\* the mappings of at most MaxItems items: the i-th key is KeyNames[i]
DictItems ==
    UNION { { s \in [1..n -> UNION {MappingItems(KeyNames[i]) : i \in 1..n}] :
                \A i \in 1..n : s[i].key = KeyNames[i] } :
            n \in 0..MaxItems }

DictInit ==
    /\ call = "dict"
    /\ pc = "start"
    /\ validator \in DictValidators
    /\ extra \in {[strict |-> o] : o \in Overrides}
    /\ input \in {[kind |-> "Object", items |-> s] : s \in DictItems}
                 \cup {[kind |-> k, items |-> <<>>] : k \in {"Null", "String", "Array"}}
    /\ idx = 0
    /\ output = <<>>
    /\ errors = <<>>
    /\ calls = <<>>
    /\ result = NoResult
    /\ stack = <<>>
    /\ recursion_guards = <<>>

\* dict.rs:77-93: extract the mapping, strict as the call's override decides
DictValidate ==
    /\ call = "dict"
    /\ pc = "start"
    /\ LET strict == strict_or(extra, validator.strict)
           dict == JsonValidateDict(input.kind, strict)
       IN /\ calls' = Append(calls, <<"validate_dict", strict>>)
          /\ IF dict.tag = "Ok"
             THEN pc' = "iter" /\ result' = result
             ELSE pc' = "done" /\ result' = dict
    /\ UNCHANGED <<stack, recursion_guards, call, validator, extra, input, idx, output, errors>>

\* dict.rs:183-217: the iterator yields its next item and the loop body runs
DictItem ==
    /\ call = "dict"
    /\ pc = "iter"
    /\ idx < Len(input.items)
    /\ LET o == validate_item(input.items[idx + 1], output, errors) IN
          /\ idx' = idx + 1
          /\ output' = o.output
          /\ errors' = o.errors
          /\ calls' = calls \o [i \in 1..Len(o.ran) |-> <<o.ran[i], idx + 1>>]
          /\ IF IsNoResult(o.abort)
             THEN pc' = "iter" /\ result' = result
             ELSE pc' = "done" /\ result' = o.abort
    /\ UNCHANGED <<stack, recursion_guards, call, validator, extra, input>>

\* dict.rs:219-224: the iterator is exhausted
DictFinish ==
    /\ call = "dict"
    /\ pc = "iter"
    /\ idx = Len(input.items)
    /\ pc' = "done"
    /\ result' = dict_finish(validator, output, errors)
    /\ UNCHANGED <<stack, recursion_guards, call, validator, extra, input, idx, output, errors, calls>>

DictNext == DictValidate \/ DictItem \/ DictFinish

SpecDict == DictInit /\ [][DictNext]_vars

----------------------------------------------------------------------------
(* The list validator, validators/list.rs *)

\* JsonInput::validate_list: only an Array is a list, whatever `strict`
JsonValidateList(kind, strict) ==
    IF kind = "Array" THEN Ok(kind) ELSE ValErrorNew("ListType")
\* JsonInput::strict_list
JsonStrictList(kind) == JsonValidateList(kind, FALSE)
\* the lax extraction of a list from a JSON value: the same Array test
JsonLaxList(kind) == JsonValidateList(kind, FALSE)

\* what the item sub-validator does with an item
ItemKinds == {"ok", "err", "omit", "fatal"}

\* item_validator.validate(py, item, extra, slots) for the item at `index`
item_validate(item, index) ==
    CASE item.ikind = "ok"   -> Ok(<<"v", index>>)
      [] item.ikind = "err"  -> ValErrorNew("ItemErr")
      [] item.ikind = "omit" -> Omit
      [] OTHER               -> InternalErr("item")

\* the outcome of the item loop: the ValResult and the indices validated
VecOutcome(res, ran) == [result |-> res, ran |-> ran]

\* GenericSequence::validate_to_vec: every item is validated, line errors
\* are collected with the item's index prepended, an omitted item is left
\* out, a fatal error ends the loop at once
RECURSIVE validate_to_vec(_, _, _, _, _)
validate_to_vec(items, i, out, errs, ran) ==
    IF i > Len(items)
    THEN VecOutcome(IF errs = <<>> THEN Ok(out) ELSE LineErrors(errs), ran)
    ELSE LET r == item_validate(items[i], i - 1)
             ran1 == Append(ran, <<"item", i>>)
         IN CASE r.tag = "Ok" ->
                    validate_to_vec(items, i + 1, Append(out, r.value), errs, ran1)
              [] r.tag = "LineErrors" ->
                    validate_to_vec(items, i + 1, out,
                        errs \o [e \in DOMAIN r.errors |->
                                    WithOuterLocation(r.errors[e], LocI(i - 1))],
                        ran1)
              [] r.tag = "Omit" ->
                    validate_to_vec(items, i + 1, out, errs, ran1)
              [] OTHER -> VecOutcome(r, ran1)

\* GenericSequence::copy_to_vec: the items as they are
copy_to_vec(items) == [i \in DOMAIN items |-> <<"raw", i - 1>>]

\* list.rs:73-111, ListValidator::_validation_logic: the length of the input
\* is checked against min_items and max_items, then the items are validated
list_validation_logic(v, items) ==
    LET length == Len(items) IN
    IF IsSome(v.min_items) /\ length < Unwrap(v.min_items)
    THEN VecOutcome(ValErrorNew("ListTooShort"), <<>>)
    ELSE IF IsSome(v.max_items) /\ length > Unwrap(v.max_items)
    THEN VecOutcome(ValErrorNew("ListTooLong"), <<>>)
    ELSE IF v.item_validator
    THEN validate_to_vec(items, 1, <<>>, <<>>, <<>>)
    ELSE VecOutcome(Ok(copy_to_vec(items)), <<>>)

\* the bounds a list validator is built with
MinItems == {None, Some(2)}
MaxItemsBounds == {None, Some(1)}

ListValidators ==
    { [type |-> "list", strict |-> s, item_validator |-> iv,
       min_items |-> mn, max_items |-> mx] :
          s \in BOOLEAN, iv \in BOOLEAN, mn \in MinItems, mx \in MaxItemsBounds }

\* the sequences of at most MaxItems items
ListItems ==
    UNION { [1..n -> {[ikind |-> k] : k \in ItemKinds}] : n \in 0..MaxItems }

ListInit ==
    /\ call = "list"
    /\ pc = "start"
    /\ validator \in ListValidators
    /\ extra = [strict |-> None]
    /\ input \in {[kind |-> "Array", items |-> s] : s \in ListItems}
                 \cup {[kind |-> k, items |-> <<>>] : k \in {"Null", "String", "Object"}}
    /\ idx = 0
    /\ output = <<>>
    /\ errors = <<>>
    /\ calls = <<>>
    /\ result = NoResult
    /\ stack = <<>>
    /\ recursion_guards = <<>>

\* the rest of a list validation, once the list has been extracted
ListRun(list, entry) ==
    IF list.tag # "Ok"
    THEN /\ result' = list
         /\ calls' = <<<<entry, 0>>>>
    ELSE LET o == list_validation_logic(validator, input.items) IN
         /\ result' = o.result
         /\ calls' = <<<<entry, 0>>>> \o o.ran

\* list.rs:40-52, ListValidator::validate
ListValidate ==
    /\ call = "list"
    /\ pc = "start"
    /\ ListRun(IF validator.strict THEN JsonStrictList(input.kind)
                                   ELSE JsonLaxList(input.kind), "validate")
    /\ pc' = "done"
    /\ UNCHANGED <<stack, recursion_guards, call, validator, extra, input, idx, output, errors>>

\* list.rs:54-62, ListValidator::validate_strict
ListValidateStrict ==
    /\ call = "list"
    /\ pc = "start"
    /\ ListRun(JsonStrictList(input.kind), "validate_strict")
    /\ pc' = "done"
    /\ UNCHANGED <<stack, recursion_guards, call, validator, extra, input, idx, output, errors>>

ListNext == ListValidate \/ ListValidateStrict

SpecList == ListInit /\ [][ListNext]_vars

----------------------------------------------------------------------------
(* The JSON-tree input, input/input_json.rs: scalar conversions *)

\* a JSON scalar: the variant and its payload (b of a Bool; i of an Int,
\* Uint or BigInt; i in halves of a Float, so that 3 is 1.5; s of a String)
JV(kind, b, i, s) == [kind |-> kind, b |-> b, i |-> i, s |-> s]
JsonBool(b) == JV("Bool", b, 0, "")
JsonInt(i) == JV("Int", FALSE, i, "")
JsonFloat(halves) == JV("Float", FALSE, halves, "")
JsonString(s) == JV("String", FALSE, 0, s)

\* ValidationMatch::exact / strict / lax
ValidationMatch(exactness, v) == Ok(<<exactness, v>>)
MatchLax(r) == IF r.tag = "Ok" THEN ValidationMatch("lax", r.value) ELSE r

\* the strings that read as booleans, as integers, as floats (in halves)
StrTrue == {"true", "TRUE", "yes", "1"}
StrFalse == {"false", "no", "0"}
StrInts == {<<"0", 0>>, <<"1", 1>>, <<"2", 2>>}
StrFloats == {<<"0", 0>>, <<"1", 2>>, <<"2", 4>>, <<"1.5", 3>>}

\* shared::str_as_bool: a small whitelist, anything else a parsing error
str_as_bool(s) ==
    IF s \in StrTrue THEN Ok(JsonBool(TRUE))
    ELSE IF s \in StrFalse THEN Ok(JsonBool(FALSE))
    ELSE ValErrorNew("BoolParsing")

\* shared::int_as_bool: 0 and 1 only, anything else a type error
int_as_bool(i) ==
    IF i = 0 THEN Ok(JsonBool(FALSE))
    ELSE IF i = 1 THEN Ok(JsonBool(TRUE))
    ELSE ValErrorNew("BoolType")

\* EitherInt::as_bool: Some(false) for 0, Some(true) for 1, else None
as_bool(i) == IF i = 0 THEN Some(FALSE) ELSE IF i = 1 THEN Some(TRUE) ELSE None

\* shared::float_as_int: the integer a float with no fractional part equals
float_as_int(halves) ==
    IF halves % 2 = 0 THEN Ok(JsonInt(halves \div 2)) ELSE ValErrorNew("IntFromFloat")

\* shared::str_as_int: decimal digits only
str_as_int(s) ==
    IF \E p \in StrInts : p[1] = s
    THEN Ok(JsonInt((CHOOSE p \in StrInts : p[1] = s)[2]))
    ELSE ValErrorNew("IntParsing")

\* shared::str_as_float
str_as_float(s) ==
    IF \E p \in StrFloats : p[1] = s
    THEN Ok(JsonFloat((CHOOSE p \in StrFloats : p[1] = s)[2]))
    ELSE ValErrorNew("FloatParsing")

\* input_json.rs:114-128, JsonInput::validate_bool
json_validate_bool(v, strict) ==
    CASE v.kind = "Bool" -> ValidationMatch("exact", JsonBool(v.b))
      [] v.kind = "String" /\ ~strict -> MatchLax(str_as_bool(v.s))
      [] v.kind = "Int" /\ ~strict -> MatchLax(int_as_bool(v.i))
      [] v.kind = "Float" /\ ~strict ->
            LET int == float_as_int(v.i) IN
            IF int.tag = "Ok"
            THEN IF IsSome(as_bool(int.value.i))
                 THEN ValidationMatch("lax", JsonBool(Unwrap(as_bool(int.value.i))))
                 ELSE ValErrorNew("BoolParsing")
            ELSE ValErrorNew("BoolType")
      [] OTHER -> ValErrorNew("BoolType")

\* (mutant) a Bool is taken for an integer in strict mode as well
json_validate_int_unguarded(v, strict) ==
    CASE v.kind \in {"Int", "Uint", "BigInt"} -> ValidationMatch("exact", JV(v.kind, FALSE, v.i, ""))
      [] v.kind = "Bool" -> ValidationMatch("lax", JsonInt(IF v.b THEN 1 ELSE 0))
      [] v.kind = "Float" /\ ~strict -> MatchLax(float_as_int(v.i))
      [] v.kind = "String" /\ ~strict -> MatchLax(str_as_int(v.s))
      [] OTHER -> ValErrorNew("IntType")

\* (mutant) a Uint is taken for an integer in lax mode only
json_validate_int_uint_lax(v, strict) ==
    CASE v.kind \in {"Int", "BigInt"} -> ValidationMatch("exact", JV(v.kind, FALSE, v.i, ""))
      [] v.kind = "Uint" /\ ~strict -> ValidationMatch("exact", JV(v.kind, FALSE, v.i, ""))
      [] v.kind = "Bool" /\ ~strict -> ValidationMatch("lax", JsonInt(IF v.b THEN 1 ELSE 0))
      [] v.kind = "Float" /\ ~strict -> MatchLax(float_as_int(v.i))
      [] v.kind = "String" /\ ~strict -> MatchLax(str_as_int(v.s))
      [] OTHER -> ValErrorNew("IntType")

\* input_json.rs:130-140, JsonInput::validate_int
json_validate_int(v, strict) ==
    CASE v.kind \in {"Int", "Uint", "BigInt"} -> ValidationMatch("exact", JV(v.kind, FALSE, v.i, ""))
      [] v.kind = "Bool" /\ ~strict -> ValidationMatch("lax", JsonInt(IF v.b THEN 1 ELSE 0))
      [] v.kind = "Float" /\ ~strict -> MatchLax(float_as_int(v.i))
      [] v.kind = "String" /\ ~strict -> MatchLax(str_as_int(v.s))
      [] OTHER -> ValErrorNew("IntType")

\* (mutant) an Int or Uint is a strict match in strict mode and a lax one in
\* lax mode
json_validate_float_int_by_mode(v, strict) ==
    CASE v.kind = "Float" -> ValidationMatch("exact", JsonFloat(v.i))
      [] v.kind \in {"Int", "Uint"} ->
            ValidationMatch(IF strict THEN "strict" ELSE "lax", JsonFloat(2 * v.i))
      [] v.kind = "Bool" /\ ~strict -> ValidationMatch("lax", JsonFloat(IF v.b THEN 2 ELSE 0))
      [] v.kind = "String" /\ ~strict -> MatchLax(str_as_float(v.s))
      [] OTHER -> ValErrorNew("FloatType")

\* input_json.rs:142-151, JsonInput::validate_float (`as f64`: the float
\* equal to the integer, twice as many halves)
json_validate_float(v, strict) ==
    CASE v.kind = "Float" -> ValidationMatch("exact", JsonFloat(v.i))
      [] v.kind \in {"Int", "Uint"} -> ValidationMatch("strict", JsonFloat(2 * v.i))
      [] v.kind = "Bool" /\ ~strict -> ValidationMatch("lax", JsonFloat(IF v.b THEN 2 ELSE 0))
      [] v.kind = "String" /\ ~strict -> MatchLax(str_as_float(v.s))
      [] OTHER -> ValErrorNew("FloatType")

\* largest Int of the model; the Uint and the BigInt lie beyond it
MaxInt == 2
UintValue == MaxInt + 1
BigIntValue == MaxInt + 2

JsonStrings == {"true", "TRUE", "yes", "false", "no", "0", "1", "2", "1.5", " 1", "abc", ""}

JsonValues ==
    {JV(k, FALSE, 0, "") : k \in {"Null", "Array", "Object"}}
    \cup {JsonBool(b) : b \in BOOLEAN}
    \cup {JsonInt(i) : i \in -1..MaxInt}
    \cup {JV("Uint", FALSE, UintValue, ""), JV("BigInt", FALSE, BigIntValue, "")}
    \cup {JsonFloat(h) : h \in -2..(2 * MaxInt)}
    \cup {JsonString(x) : x \in JsonStrings}

ScalarTargets == {"bool", "int", "float"}

JsonInit ==
    /\ call = "json"
    /\ pc = "start"
    /\ validator \in {[type |-> t, strict |-> st] : t \in ScalarTargets, st \in BOOLEAN}
    /\ extra = [strict |-> None]
    /\ input \in JsonValues
    /\ idx = 0
    /\ output = <<>>
    /\ errors = <<>>
    /\ calls = <<>>
    /\ result = NoResult
    /\ stack = <<>>
    /\ recursion_guards = <<>>

\* input.validate_bool(strict)
JsonValidateBool ==
    /\ call = "json" /\ pc = "start" /\ validator.type = "bool"
    /\ result' = json_validate_bool(input, validator.strict)
    /\ calls' = <<<<"validate_bool", validator.strict>>>>
    /\ pc' = "done"
    /\ UNCHANGED <<stack, recursion_guards, call, validator, extra, input, idx, output, errors>>

\* input.validate_int(strict)
JsonValidateInt ==
    /\ call = "json" /\ pc = "start" /\ validator.type = "int"
    /\ result' = json_validate_int(input, validator.strict)
    /\ calls' = <<<<"validate_int", validator.strict>>>>
    /\ pc' = "done"
    /\ UNCHANGED <<stack, recursion_guards, call, validator, extra, input, idx, output, errors>>

\* input.validate_float(strict)
JsonValidateFloat ==
    /\ call = "json" /\ pc = "start" /\ validator.type = "float"
    /\ result' = json_validate_float(input, validator.strict)
    /\ calls' = <<<<"validate_float", validator.strict>>>>
    /\ pc' = "done"
    /\ UNCHANGED <<stack, recursion_guards, call, validator, extra, input, idx, output, errors>>

\* the value a validation returned, handed in again as JSON: a bool is a
\* Bool, an EitherInt the Int, Uint or BigInt it holds, a float a Float
as_json_input(value) ==
    CASE value.kind = "Bool" -> JsonBool(value.b)
      [] value.kind \in {"Int", "Uint", "BigInt"} -> JV(value.kind, FALSE, value.i, "")
      [] OTHER -> JsonFloat(value.i)

\* the scalar conversion of the target
json_validate(target, v, strict) ==
    CASE target = "bool" -> json_validate_bool(v, strict)
      [] target = "int"  -> json_validate_int(v, strict)
      [] OTHER           -> json_validate_float(v, strict)

\* the output of a successful validation is validated again, for the same
\* target, in strict mode; `output` keeps the first output
JsonRevalidate ==
    /\ call = "json" /\ pc = "done" /\ result.tag = "Ok"
    /\ output' = Some(result.value[2])
    /\ input' = as_json_input(result.value[2])
    /\ validator' = [validator EXCEPT !.strict = TRUE]
    /\ result' = json_validate(validator.type, input', TRUE)
    /\ calls' = Append(calls, <<calls[1][1], TRUE>>)
    /\ pc' = "redone"
    /\ UNCHANGED <<stack, recursion_guards, call, extra, idx, errors>>

JsonNext == JsonValidateBool \/ JsonValidateInt \/ JsonValidateFloat \/ JsonRevalidate

SpecJson == JsonInit /\ [][JsonNext]_vars

----------------------------------------------------------------------------
(* The date validator, validators/date.rs, over the JSON-tree input *)

\* last day of the model's calendar (days are numbered from the epoch, 0)
MaxDay == 1

SecondsPerMinute == 60
SecondsPerHour == 60 * SecondsPerMinute
SecondsPerDay == 24 * SecondsPerHour
HalfSecond == 500 * 1000

\* ValError::new with a parsing error type carrying the parser's message
ParsingError(type, error) == LineErrors(<<[type |-> type, loc |-> <<>>, error |-> error]>>)

\* speedate::Date, speedate::Time, speedate::DateTime
Date(day) == [day |-> day]
Time(hour, minute, second, microsecond, tz_offset) ==
    [hour |-> hour, minute |-> minute, second |-> second,
     microsecond |-> microsecond, tz_offset |-> tz_offset]
DateTime(date, time) == [date |-> date, time |-> time]

\* what a JSON string reads as under the RFC 3339 grammar: a date, a datetime
\* (`excess`: more than six digits of fractional seconds follow the
\* microseconds) or neither
TzOffsets == {None, Some(0), Some(SecondsPerHour)}
NoTime == Time(0, 0, 0, 0, None)
DateText(day) == [form |-> "date", day |-> day, time |-> NoTime, excess |-> FALSE]
DateTimeText(day, time, excess) ==
    [form |-> "datetime", day |-> day, time |-> time, excess |-> excess]
JunkText == [form |-> "junk", day |-> 0, time |-> NoTime, excess |-> FALSE]

\* a JSON value handed to the date validator: a String with its text, an Int
\* or a Float (in halves) with its number, or a value of another kind
NoRep == [date |-> NoResult, datetime |-> NoResult]
DateInput(kind, i, text) == [kind |-> kind, i |-> i, text |-> text, rep |-> NoRep]

\* datetime_utils::bytes_as_date
bytes_as_date(text) ==
    CASE text.form = "date" -> Ok(Date(text.day))
      [] text.form = "datetime" -> ParsingError("DateParsing", "ExtraCharacters")
      [] OTHER -> ParsingError("DateParsing", "InvalidCharYear")

\* datetime_utils::bytes_as_datetime: digits past the microseconds are
\* dropped under Truncate and refused under Error
bytes_as_datetime(text, microseconds_overflow_behavior) ==
    CASE text.form = "datetime" ->
            IF text.excess /\ microseconds_overflow_behavior = "Error"
            THEN ParsingError("DatetimeParsing", "SecondFractionTooLong")
            ELSE Ok(DateTime(Date(text.day), text.time))
      [] text.form = "date" -> ParsingError("DatetimeParsing", "TooShort")
      [] OTHER -> ParsingError("DatetimeParsing", "InvalidCharYear")

\* the datetime `seconds` after the epoch, plus `microsecond`
TimestampDateTime(seconds, microsecond) ==
    LET in_day == seconds % SecondsPerDay IN
    DateTime(Date(seconds \div SecondsPerDay),
             Time(in_day \div SecondsPerHour,
                  (in_day % SecondsPerHour) \div SecondsPerMinute,
                  in_day % SecondsPerMinute,
                  microsecond, None))

\* datetime_utils::int_as_datetime(input, timestamp, 0)
int_as_datetime(timestamp) ==
    IF timestamp < 0 THEN ParsingError("DatetimeParsing", "DateTooSmall")
    ELSE Ok(TimestampDateTime(timestamp, 0))

\* datetime_utils::float_as_datetime: whole seconds and the fraction
float_as_datetime(halves) ==
    IF halves < 0 THEN ParsingError("DatetimeParsing", "DateTooSmall")
    ELSE Ok(TimestampDateTime(halves \div 2, (halves % 2) * HalfSecond))

\* input_json.rs:245-250, JsonInput::validate_date
json_validate_date(v, strict) ==
    IF v.kind = "String" THEN bytes_as_date(v.text) ELSE ValErrorNew("DateType")

\* input_json.rs:287-295, JsonInput::strict_datetime
json_strict_datetime(v, microseconds_overflow_behavior) ==
    IF v.kind = "String"
    THEN bytes_as_datetime(v.text, microseconds_overflow_behavior)
    ELSE ValErrorNew("DatetimeType")

\* input_json.rs:296-306, JsonInput::lax_datetime
json_lax_datetime(v, microseconds_overflow_behavior) ==
    CASE v.kind = "String" -> bytes_as_datetime(v.text, microseconds_overflow_behavior)
      [] v.kind = "Int" -> int_as_datetime(v.i)
      [] v.kind = "Float" -> float_as_datetime(v.i)
      [] OTHER -> ValErrorNew("DatetimeType")

\* an input of another implementation of Input (date.rs:44, `impl Input`),
\* given by what its date and its datetime validation return
GivenInput(date, datetime) ==
    [kind |-> "Given", i |-> 0, text |-> JunkText,
     rep |-> [date |-> date, datetime |-> datetime]]

\* input_abstract.rs:187-193, Input::validate_date
validate_date(v, strict) ==
    IF v.kind = "Given" THEN v.rep.date ELSE json_validate_date(v, strict)

\* input_abstract.rs:213-219, Input::validate_datetime
validate_datetime(v, strict, microseconds_overflow_behavior) ==
    CASE v.kind = "Given" -> v.rep.datetime
      [] strict -> json_strict_datetime(v, microseconds_overflow_behavior)
      [] OTHER -> json_lax_datetime(v, microseconds_overflow_behavior)

\* (mutant) line errors of another type are left out and the rest re-typed
RECURSIVE retype_datetime_errors_skipping(_, _, _, _)
retype_datetime_errors_skipping(line_errors, i, done, date_err) ==
    IF i > Len(line_errors) THEN LineErrors(done)
    ELSE IF line_errors[i].type = "DatetimeParsing"
    THEN retype_datetime_errors_skipping(line_errors, i + 1,
            Append(done, [line_errors[i] EXCEPT !.type = "DateFromDatetimeParsing"]),
            date_err)
    ELSE retype_datetime_errors_skipping(line_errors, i + 1, done, date_err)

\* date.rs:114-126: every DatetimeParsing line error becomes a
\* DateFromDatetimeParsing one; at the first line error of another type the
\* date error is returned instead
RECURSIVE retype_datetime_errors(_, _, _, _)
retype_datetime_errors(line_errors, i, done, date_err) ==
    IF i > Len(line_errors) THEN LineErrors(done)
    ELSE IF line_errors[i].type = "DatetimeParsing"
    THEN retype_datetime_errors(line_errors, i + 1,
            Append(done, [line_errors[i] EXCEPT !.type = "DateFromDatetimeParsing"]),
            date_err)
    ELSE date_err

\* date.rs:103-145, date_from_datetime
date_from_datetime(v, date_err) ==
    LET either_dt == validate_datetime(v, FALSE, "Truncate") IN
    CASE either_dt.tag = "Ok" ->
            LET dt == either_dt.value
                zero_time == Time(0, 0, 0, 0, dt.time.tz_offset)
            IN IF dt.time = zero_time
               THEN Ok(dt.date)
               ELSE ValErrorNew("DateFromDatetimeInexact")
      [] either_dt.tag = "LineErrors" ->
            retype_datetime_errors(either_dt.errors, 1, <<>>, date_err)
      [] OTHER -> either_dt

\* NowOp::compare: Past wants a date before today, Future one after it
NowOpCompare(op, date, today) ==
    IF op = "Past" THEN date.day < today.day ELSE date.day > today.day

\* date.rs:49-59: the date taken from the input, or the error returned
date_or_error(v, ex, input_value) ==
    LET date == validate_date(input_value, UnwrapOr(ex.strict, v.strict)) IN
    CASE date.tag = "Ok" -> date
      [] date.tag = "InternalErr" -> date
      [] OTHER -> IF v.strict THEN date ELSE date_from_datetime(input_value, date)

\* did date.rs:57 run: the call of date_from_datetime
fallback_attempted(v, ex, input_value) ==
    /\ validate_date(input_value, UnwrapOr(ex.strict, v.strict)).tag \notin {"Ok", "InternalErr"}
    /\ ~v.strict

\* speedate Date::today(offset): the date of the clock's reading `now`
\* (seconds after the epoch, UTC) moved by the offset
date_today(now, offset) == Date((now + offset) \div SecondsPerDay)

\* (mutant) the two error types of the today constraint are exchanged
date_constrained_errors_swapped(v, date, now) ==
    IF /\ IsSome(v.constraints)
       /\ IsSome(Unwrap(v.constraints).today)
       /\ ~NowOpCompare(Unwrap(Unwrap(v.constraints).today).op, date,
                        date_today(now, Unwrap(Unwrap(v.constraints).today).utc_offset))
    THEN ValErrorNew(IF Unwrap(Unwrap(v.constraints).today).op = "Past"
                     THEN "DateFuture" ELSE "DatePast")
    ELSE Ok(date)

\* date.rs:60-81: the today constraint on the date obtained; `now` is what
\* the clock reads
date_constrained(v, date, now) ==
    IF /\ IsSome(v.constraints)
       /\ IsSome(Unwrap(v.constraints).today)
       /\ ~NowOpCompare(Unwrap(Unwrap(v.constraints).today).op, date,
                        date_today(now, Unwrap(Unwrap(v.constraints).today).utc_offset))
    THEN ValErrorNew(IF Unwrap(Unwrap(v.constraints).today).op = "Past"
                     THEN "DatePast" ELSE "DateFuture")
    ELSE Ok(date)

\* the UTC offsets of a today constraint, in seconds
UtcOffsets == {0, SecondsPerHour}

\* the readings of the clock: midnight and 23:00 of each day
Nows == {d * SecondsPerDay + t : d \in 0..MaxDay, t \in {0, 23 * SecondsPerHour}}

\* DateConstraints::from_py, date.rs:153-162: None unless a today constraint
DateConstraintsSet ==
    {None} \cup {Some([today |-> Some([op |-> op, utc_offset |-> o])]) :
                    op \in {"Past", "Future"}, o \in UtcOffsets}

\* speedate::MicrosecondsPrecisionOverflowBehavior
MicrosecondsPrecisionOverflowBehaviors == {"Truncate", "Error"}

\* date.rs:16-35: the validator as built; build reads the strictness and the
\* today constraint, `microseconds_precision` is the policy of the config the
\* validator was built with, which build leaves unread
DateValidators ==
    {[type |-> "date", strict |-> st, constraints |-> c, microseconds_precision |-> m] :
        st \in BOOLEAN, c \in DateConstraintsSet,
        m \in MicrosecondsPrecisionOverflowBehaviors}

Times ==
    {Time(h, m, sec, us, tz) : h \in 0..1, m \in 0..1, sec \in 0..1, us \in 0..1, tz \in TzOffsets}

Timestamps ==
    {d * SecondsPerDay + t :
        d \in 0..MaxDay, t \in {0, 1, SecondsPerMinute, SecondsPerHour}}

\* what the date and the datetime validation of a given input return
GivenDateResults ==
    {ValErrorNew("DateType"),
     LineErrors(<<[type |-> "DateParsing", loc |-> <<LocS("d")>>, error |-> "TooShort"]>>)}
GivenDatetimeResults ==
    {Ok(DateTime(Date(0), NoTime)),
     LineErrors(<<[type |-> "DatetimeParsing", loc |-> <<LocI(0)>>, error |-> "TooShort"],
                  [type |-> "DatetimeParsing", loc |-> <<>>, error |-> "InvalidCharYear"]>>),
     LineErrors(<<[type |-> "DatetimeParsing", loc |-> <<>>, error |-> "TooShort"],
                  [type |-> "DatetimeType", loc |-> <<>>, error |-> ""]>>),
     LineErrors(<<[type |-> "DatetimeType", loc |-> <<LocI(0)>>, error |-> ""],
                  [type |-> "DatetimeParsing", loc |-> <<>>, error |-> "TooShort"]>>),
     InternalErr("validate_datetime"),
     Omit}

DateInputs ==
    {DateInput("String", 0, DateText(d)) : d \in 0..MaxDay}
    \cup {DateInput("String", 0, DateTimeText(d, t, x)) :
            d \in 0..MaxDay, t \in Times, x \in BOOLEAN}
    \cup {DateInput("String", 0, JunkText)}
    \cup {DateInput("Int", ts, JunkText) : ts \in Timestamps \cup {-1}}
    \cup {DateInput("Float", 2 * ts + h, JunkText) : ts \in Timestamps, h \in 0..1}
    \cup {DateInput(k, 0, JunkText) : k \in {"Null", "Bool", "Array", "Object"}}
    \cup {GivenInput(d, dt) : d \in GivenDateResults, dt \in GivenDatetimeResults}

DateInit ==
    /\ call = "date"
    /\ pc = "start"
    /\ validator \in DateValidators
    /\ extra \in {[strict |-> o] : o \in Overrides}
    /\ input \in DateInputs
    /\ idx = 0
    /\ output = None
    /\ errors = <<>>
    /\ calls = <<>>
    /\ result = NoResult
    /\ stack = <<>>
    /\ recursion_guards = <<>>

\* date.rs:41-82, DateValidator::validate.  `output` keeps the date obtained
\* at lines 49-59, `calls` what was asked of the input and of the clock.
DateValidate ==
    /\ call = "date" /\ pc = "start"
    /\ \E now \in Nows :
        LET strict == UnwrapOr(extra.strict, validator.strict)
            date == date_or_error(validator, extra, input)
            asked == <<<<"validate_date", strict>>>>
                     \o (IF fallback_attempted(validator, extra, input)
                         THEN <<<<"validate_datetime", FALSE>>>> ELSE <<>>)
        IN IF date.tag = "Ok"
           THEN /\ output' = Some(date.value)
                /\ result' = date_constrained(validator, date.value, now)
                /\ calls' = asked \o
                     (IF IsSome(validator.constraints)
                      THEN <<<<"today", now>>>> ELSE <<>>)
           ELSE /\ output' = None
                /\ result' = date
                /\ calls' = asked
    /\ pc' = "done"
    /\ UNCHANGED <<stack, recursion_guards, call, validator, extra, input, idx, errors>>

DateNext == DateValidate

SpecDate == DateInit /\ [][DateNext]_vars

----------------------------------------------------------------------------
(* The validation state, validators/validation_state.rs *)

\* number of operations on the state followed in one call
MaxOps == 4

\* recursion_guard::RECURSION_GUARD_LIMIT (lib.rs:125), scaled down
RecursionLimit == 2

\* validation_state.rs:5-10, enum Exactness
Exactnesses == {"Lax", "Strict", "Exact"}

\* the Extra values of the model: the per-call strict override
Extras == {[strict |-> o] : o \in Overrides}

\* the identities of the input's containers
Ids == 1..(RecursionLimit + 1)

\* RecursionGuard::default: nothing entered
NewRecursionGuard == [ids |-> {}, depth |-> 0]

\* RecursionGuard: may the identity be entered?  Not while it is being
\* validated, and not beyond the depth limit
guard_refuses(guard, id) == id \in guard.ids \/ guard.depth + 1 > RecursionLimit
\* RecursionGuard: the identity is recorded and the depth incremented
guard_enter(guard, id) == [ids |-> guard.ids \cup {id}, depth |-> guard.depth + 1]
\* RecursionGuard: on return the identity is removed and the depth decremented
guard_leave(guard, id) == [ids |-> guard.ids \ {id}, depth |-> guard.depth - 1]

\* the frames of the stack
StateFrame(recursion_guard, exactness, ex) ==
    [kind |-> "state", recursion_guard |-> recursion_guard,
     exactness |-> exactness, extra |-> ex, id |-> 0]
\* ValidationStateWithReboundExtra: `old_extra` is kept in the frame's extra
RebindFrame(old_extra) ==
    [kind |-> "rebind", recursion_guard |-> "", exactness |-> None,
     extra |-> old_extra, id |-> 0]
DescentFrame(id) ==
    [kind |-> "descent", recursion_guard |-> "", exactness |-> None,
     extra |-> [strict |-> None], id |-> id]

\* validation_state.rs:21-33, ValidationState::new
ValidationStateNew(ex, recursion_guard) == StateFrame(recursion_guard, None, ex)

\* (mutant) the ceiling replaces the exactness
set_exactness_ceiling_overwrite(current, exactness) ==
    IF current = None THEN None ELSE Some(exactness)

\* (mutant) an unknown exactness takes the ceiling given
set_exactness_ceiling_fills_unknown(current, exactness) ==
    CASE current = None -> Some(exactness)
      [] current = Some("Lax") -> current
      [] current = Some("Strict") ->
            IF exactness = "Lax" THEN Some("Lax") ELSE current
      [] OTHER -> Some(exactness)

\* validation_state.rs:89-99, set_exactness_ceiling: the new self.exactness
set_exactness_ceiling(current, exactness) ==
    CASE current = None \/ current = Some("Lax") -> current
      [] current = Some("Strict") ->
            IF exactness = "Lax" THEN Some("Lax") ELSE current
      [] OTHER -> Some(exactness)

\* (mutant) the nested state's exactness is dropped when the closure returns
exactness_after_closure_dropped(self_exactness, new_exactness) == self_exactness

\* validation_state.rs:49-52: self.exactness once the closure has returned
exactness_after_closure(self_exactness, new_exactness) ==
    IF IsSome(new_exactness)
    THEN set_exactness_ceiling(self_exactness, Unwrap(new_exactness))
    ELSE None

\* (mutant) the nested state gets a recursion guard of its own
new_state_own_guard(self, ex) == StateFrame("spare", self.exactness, ex)

\* validation_state.rs:42-47: the state handed to the closure
new_state(self, ex) == StateFrame(self.recursion_guard, self.exactness, ex)

\* (mutant) old_extra is copied after f has run
rebind_old_extra_late(self_extra, f) == f

\* validation_state.rs:63: old_extra, the copy of self.extra taken before f
rebind_old_extra(self_extra, f) == self_extra

\* the state the top of the stack works on: the innermost ValidationState
TopState == CHOOSE i \in DOMAIN stack :
                /\ stack[i].kind = "state"
                /\ \A j \in DOMAIN stack : (j > i) => stack[j].kind # "state"
Top == stack[Len(stack)]
Pop == SubSeq(stack, 1, Len(stack) - 1)
TheGuard == recursion_guards[stack[TopState].recursion_guard]

StateInit ==
    /\ call = "state"
    /\ pc = "run"
    /\ validator = [type |-> "state"]
    /\ extra \in Extras
    /\ input = [kind |-> "Null"]
    /\ idx = 0
    /\ output = <<>>
    /\ errors = <<>>
    /\ calls = <<>>
    /\ result = NoResult
    /\ stack = <<ValidationStateNew(extra, "call")>>
    /\ recursion_guards = [r \in {"call", "spare"} |-> NewRecursionGuard]

Running == call = "state" /\ pc = "run" /\ Len(calls) < MaxOps

StateFrameVars == <<call, pc, validator, extra, input, idx, output, errors, result>>

\* the union validator seeds the exactness of a branch: state.exactness = Some(Exact)
StateSeedExactness ==
    /\ Running
    /\ stack' = [stack EXCEPT ![TopState].exactness = Some("Exact")]
    /\ calls' = Append(calls, <<"seed", "Exact">>)
    /\ UNCHANGED <<StateFrameVars, recursion_guards>>

\* validation_state.rs:89-99, set_exactness_ceiling
StateSetExactnessCeiling ==
    /\ Running
    /\ \E e \in Exactnesses :
        /\ stack' = [stack EXCEPT ![TopState].exactness =
                        set_exactness_ceiling(stack[TopState].exactness, e)]
        /\ calls' = Append(calls, <<"set_exactness_ceiling", e>>)
    /\ UNCHANGED <<StateFrameVars, recursion_guards>>

\* validation_state.rs:80-82, set_exactness_unknown
StateSetExactnessUnknown ==
    /\ Running
    /\ stack' = [stack EXCEPT ![TopState].exactness = None]
    /\ calls' = Append(calls, <<"set_exactness_unknown", "">>)
    /\ UNCHANGED <<StateFrameVars, recursion_guards>>

\* validation_state.rs:35-48, with_new_extra up to the call of the closure
StateWithNewExtra ==
    /\ Running
    /\ \E ex \in Extras :
        /\ stack' = Append(stack, new_state(stack[TopState], ex))
        /\ calls' = Append(calls, <<"with_new_extra", ex>>)
    /\ UNCHANGED <<StateFrameVars, recursion_guards>>

\* validation_state.rs:48-53, with_new_extra once the closure has returned
StateWithNewExtraReturn ==
    /\ Running
    /\ Len(stack) > 1
    /\ Top.kind = "state"
    /\ LET self == CHOOSE i \in DOMAIN Pop :
                        /\ Pop[i].kind = "state"
                        /\ \A j \in DOMAIN Pop : (j > i) => Pop[j].kind # "state"
       IN stack' = [Pop EXCEPT ![self].exactness =
                        exactness_after_closure(Pop[self].exactness, Top.exactness)]
    /\ calls' = Append(calls, <<"with_new_extra_return", "">>)
    /\ UNCHANGED <<StateFrameVars, recursion_guards>>

\* validation_state.rs:59-66, rebind_extra; f sets the strict override (the
\* log keeps f's extra and what extra() returned just before the call)
StateRebindExtra ==
    /\ Running
    /\ \E f \in Extras :
        /\ stack' = Append([stack EXCEPT ![TopState].extra = f],
                           RebindFrame(rebind_old_extra(stack[TopState].extra, f)))
        /\ calls' = Append(calls, <<"rebind_extra", f, stack[TopState].extra>>)
    /\ UNCHANGED <<StateFrameVars, recursion_guards>>

\* validation_state.rs:121-125, drop of the guard: extra and old_extra swapped
StateDropGuard ==
    /\ Running
    /\ Top.kind = "rebind"
    /\ stack' = [Pop EXCEPT ![TopState].extra = Top.extra]
    /\ calls' = Append(calls, <<"drop", "">>)
    /\ UNCHANGED <<StateFrameVars, recursion_guards>>

\* descent into a container of the input: the recursion guard of the state
\* records its identity, or the call ends with the fatal recursion error
StateDescend ==
    /\ Running
    /\ \E id \in Ids :
        /\ calls' = Append(calls, <<"descend", id>>)
        /\ IF guard_refuses(TheGuard, id)
           THEN /\ pc' = "done"
                /\ result' = InternalErr("RecursionLoop")
                /\ UNCHANGED <<stack, recursion_guards>>
           ELSE /\ stack' = Append(stack, DescentFrame(id))
                /\ recursion_guards' =
                     [recursion_guards EXCEPT ![stack[TopState].recursion_guard] =
                         guard_enter(TheGuard, id)]
                /\ UNCHANGED <<pc, result>>
    /\ UNCHANGED <<call, validator, extra, input, idx, output, errors>>

\* return from a descent
StateReturn ==
    /\ Running
    /\ Top.kind = "descent"
    /\ stack' = Pop
    /\ recursion_guards' =
         [recursion_guards EXCEPT ![stack[TopState].recursion_guard] =
             guard_leave(TheGuard, Top.id)]
    /\ calls' = Append(calls, <<"return", Top.id>>)
    /\ UNCHANGED StateFrameVars

StateNext ==
    \/ StateSeedExactness
    \/ StateSetExactnessCeiling
    \/ StateSetExactnessUnknown
    \/ StateWithNewExtra
    \/ StateWithNewExtraReturn
    \/ StateRebindExtra
    \/ StateDropGuard
    \/ StateDescend
    \/ StateReturn

SpecState == StateInit /\ [][StateNext]_vars

----------------------------------------------------------------------------
(* The Input interface and its defaults, input/input_abstract.rs *)

\* the kinds X with validate_X / strict_X / lax_X
InputKinds ==
    {"str", "bytes", "bool", "int", "float", "dict", "tuple",
     "date", "time", "datetime", "timedelta"}

\* what a method of a representation may return for one input
Outcomes == {Ok(<<"a">>), Ok(<<"b">>), ValErrorNew("Type")}

\* a representation, as far as one input and one kind go: what its strict_X
\* returns, what its ultra_strict_float returns, and what its own lax_X
\* returns if it defines one
Representations ==
    {[strict |-> st, ultra_strict |-> us, lax |-> lx] :
        st \in Outcomes, us \in Outcomes, lx \in {None} \cup {Some(o) : o \in Outcomes}}

\* (mutant) the default lax method refuses the input
lax_default_refuses(rep) == ValErrorNew("Type")

\* input_abstract.rs:90-92 (and the same for every kind), the default lax_X
lax_default(rep) == rep.strict

\* lax_X of the representation: its own if it defines one, else the default
lax_method(rep) == IF IsSome(rep.lax) THEN Unwrap(rep.lax) ELSE lax_default(rep)

\* input_abstract.rs:81-87 (and the same for every kind but float), validate_X
validate_kind(rep, strict) == IF strict THEN rep.strict ELSE lax_method(rep)

\* input_abstract.rs:137-145, validate_float
validate_float(rep, strict, ultra_strict) ==
    IF ultra_strict THEN rep.ultra_strict
    ELSE IF strict THEN rep.strict
    ELSE lax_method(rep)

InputInit ==
    /\ call = "input"
    /\ pc = "start"
    /\ validator \in
         {[type |-> k, strict |-> st, ultra_strict |-> us] :
             k \in InputKinds, st \in BOOLEAN, us \in BOOLEAN}
    /\ (validator.type # "float") => ~validator.ultra_strict
    /\ extra = [strict |-> None]
    /\ input \in Representations
    /\ (validator.type # "float") => input.ultra_strict = input.strict
    /\ idx = 0
    /\ output = <<>>
    /\ errors = <<>>
    /\ calls = <<>>
    /\ result = NoResult
    /\ stack = <<>>
    /\ recursion_guards = <<>>

\* input.validate_X(strict), for every kind but float
InputValidate ==
    /\ call = "input" /\ pc = "start" /\ validator.type # "float"
    /\ result' = validate_kind(input, validator.strict)
    /\ calls' = <<<<validator.type, validator.strict>>>>
    /\ pc' = "done"
    /\ UNCHANGED <<stack, recursion_guards, call, validator, extra, input, idx, output, errors>>

\* input.validate_float(strict, ultra_strict)
InputValidateFloat ==
    /\ call = "input" /\ pc = "start" /\ validator.type = "float"
    /\ result' = validate_float(input, validator.strict, validator.ultra_strict)
    /\ calls' = <<<<validator.type, validator.strict>>>>
    /\ pc' = "done"
    /\ UNCHANGED <<stack, recursion_guards, call, validator, extra, input, idx, output, errors>>

InputNext == InputValidate \/ InputValidateFloat

SpecInput == InputInit /\ [][InputNext]_vars

----------------------------------------------------------------------------
(* The JSON-tree input, input/input_json.rs: structural extraction *)

\* a JSON value with its content: the characters of a String, the items of
\* an Array, the keys of an Object in order
Tree(kind, s, items, keys) == [kind |-> kind, s |-> s, items |-> items, keys |-> keys]
TreeScalar(kind) == Tree(kind, <<>>, <<>>, <<>>)
TreeString(s) == Tree("String", s, <<>>, <<>>)
TreeArray(items) == Tree("Array", <<>>, items, <<>>)
TreeObject(keys) == Tree("Object", <<>>, <<>>, keys)

\* input_json.rs:521-523, string_to_vec: one String per character
string_to_vec(s) == [i \in 1..Len(s) |-> TreeString(<<s[i]>>)]

\* input_json.rs:165-170, JsonInput::validate_dict
json_validate_dict(v, strict) ==
    IF v.kind = "Object" THEN Ok(<<"JsonObject", v.keys>>) ELSE ValErrorNew("DictType")

\* input_json.rs:176-181, JsonInput::validate_list
json_validate_list(v, strict) ==
    IF v.kind = "Array" THEN Ok(<<"JsonArray", v.items>>) ELSE ValErrorNew("ListType")

\* input_json.rs:187-193, JsonInput::validate_tuple
json_validate_tuple(v, strict) ==
    IF v.kind = "Array" THEN Ok(<<"JsonArray", v.items>>) ELSE ValErrorNew("TupleType")

\* input_json.rs:199-205, JsonInput::validate_set
json_validate_set(v, strict) ==
    IF v.kind = "Array" THEN Ok(<<"JsonArray", v.items>>) ELSE ValErrorNew("SetType")

\* input_json.rs:211-217, JsonInput::validate_frozenset
json_validate_frozenset(v, strict) ==
    IF v.kind = "Array" THEN Ok(<<"JsonArray", v.items>>) ELSE ValErrorNew("FrozenSetType")

\* (mutant) an Object cannot be iterated
json_validate_iter_no_object(v) ==
    CASE v.kind = "Array" -> Ok(<<"iter", v.items>>)
      [] v.kind = "String" -> Ok(<<"iter", string_to_vec(v.s)>>)
      [] OTHER -> ValErrorNew("IterableType")

\* input_json.rs:232-243, JsonInput::validate_iter
json_validate_iter(v) ==
    CASE v.kind = "Array" -> Ok(<<"iter", v.items>>)
      [] v.kind = "String" -> Ok(<<"iter", string_to_vec(v.s)>>)
      [] v.kind = "Object" ->
            Ok(<<"iter", [i \in 1..Len(v.keys) |-> TreeString(v.keys[i])]>>)
      [] OTHER -> ValErrorNew("IterableType")

\* the characters, and the strings of at most MaxItems of them
Chars == {"a", "b"}
CharStrings == UNION {[1..n -> Chars] : n \in 0..MaxItems}

\* the JSON values without content
TreeScalars == {TreeScalar(k) : k \in {"Null", "Bool", "Int", "Uint", "BigInt", "Float"}}

\* the arrays of at most MaxItems scalars or one-character strings
TreeItems == {TreeScalar("Null"), TreeScalar("Int"), TreeString(<<"a">>)}
TreeArrays == UNION {{TreeArray(items) : items \in [1..n -> TreeItems]} : n \in 0..MaxItems}

\* the objects of at most MaxItems distinct keys
TreeObjects ==
    UNION {{TreeObject(keys) :
                keys \in {ks \in [1..n -> {<<"a">>, <<"b">>, <<"a", "b">>}] :
                            \A i, j \in 1..n : (i # j) => ks[i] # ks[j]}} :
           n \in 0..MaxItems}

TreeValues ==
    TreeScalars \cup {TreeString(s) : s \in CharStrings} \cup TreeArrays \cup TreeObjects

ShapeTargets == {"dict", "list", "tuple", "set", "frozenset", "iter"}

ShapeInit ==
    /\ call = "shape"
    /\ pc = "start"
    /\ validator \in {[type |-> t, strict |-> st] : t \in ShapeTargets, st \in BOOLEAN}
    /\ extra = [strict |-> None]
    /\ input \in TreeValues
    /\ idx = 0
    /\ output = <<>>
    /\ errors = <<>>
    /\ calls = <<>>
    /\ result = NoResult
    /\ stack = <<>>
    /\ recursion_guards = <<>>

\* the rest of an extraction: the result is returned and the call logged
ShapeReturn(method, r) ==
    /\ result' = r
    /\ calls' = <<<<method, validator.strict>>>>
    /\ pc' = "done"
    /\ UNCHANGED <<stack, recursion_guards, call, validator, extra, input, idx, output, errors>>

ShapeValidateDict ==
    /\ call = "shape" /\ pc = "start" /\ validator.type = "dict"
    /\ ShapeReturn("validate_dict", json_validate_dict(input, validator.strict))

ShapeValidateList ==
    /\ call = "shape" /\ pc = "start" /\ validator.type = "list"
    /\ ShapeReturn("validate_list", json_validate_list(input, validator.strict))

ShapeValidateTuple ==
    /\ call = "shape" /\ pc = "start" /\ validator.type = "tuple"
    /\ ShapeReturn("validate_tuple", json_validate_tuple(input, validator.strict))

ShapeValidateSet ==
    /\ call = "shape" /\ pc = "start" /\ validator.type = "set"
    /\ ShapeReturn("validate_set", json_validate_set(input, validator.strict))

ShapeValidateFrozenset ==
    /\ call = "shape" /\ pc = "start" /\ validator.type = "frozenset"
    /\ ShapeReturn("validate_frozenset", json_validate_frozenset(input, validator.strict))

ShapeValidateIter ==
    /\ call = "shape" /\ pc = "start" /\ validator.type = "iter"
    /\ ShapeReturn("validate_iter", json_validate_iter(input))

ShapeNext ==
    \/ ShapeValidateDict
    \/ ShapeValidateList
    \/ ShapeValidateTuple
    \/ ShapeValidateSet
    \/ ShapeValidateFrozenset
    \/ ShapeValidateIter

SpecShape == ShapeInit /\ [][ShapeNext]_vars

----------------------------------------------------------------------------
(* The JSON-tree input, input/input_json.rs: time, datetime and timedelta *)

\* speedate::Duration
Duration(positive, day, second, microsecond) ==
    [positive |-> positive, day |-> day, second |-> second, microsecond |-> microsecond]

\* a string that reads as a time, and one that reads as a duration of
\* `second` seconds
TimeText(time, excess) == [form |-> "time", day |-> 0, time |-> time, excess |-> excess]
DurationText(second, excess) ==
    [form |-> "duration", day |-> 0,
     time |-> Time(0, 0, second, 0, None), excess |-> excess]

\* datetime_utils::bytes_as_time
bytes_as_time(text, microseconds_overflow_behavior) ==
    IF text.form = "time"
    THEN IF text.excess /\ microseconds_overflow_behavior = "Error"
         THEN ParsingError("TimeParsing", "SecondFractionTooLong")
         ELSE Ok(text.time)
    ELSE ParsingError("TimeParsing", "InvalidCharHour")

\* the time `seconds` after midnight, plus `microsecond`
TimeOfDay(seconds, microsecond) ==
    Time(seconds \div SecondsPerHour,
         (seconds % SecondsPerHour) \div SecondsPerMinute,
         seconds % SecondsPerMinute, microsecond, None)

\* datetime_utils::int_as_time(input, timestamp, 0)
int_as_time(timestamp) ==
    CASE timestamp < 0 -> ParsingError("TimeParsing", "TimeTooSmall")
      [] timestamp >= SecondsPerDay -> ParsingError("TimeParsing", "TimeTooLarge")
      [] OTHER -> Ok(TimeOfDay(timestamp, 0))

\* datetime_utils::float_as_time: whole seconds and the fraction
float_as_time(halves) ==
    CASE halves < 0 -> ParsingError("TimeParsing", "TimeTooSmall")
      [] halves \div 2 >= SecondsPerDay -> ParsingError("TimeParsing", "TimeTooLarge")
      [] OTHER -> Ok(TimeOfDay(halves \div 2, (halves % 2) * HalfSecond))

\* datetime_utils::bytes_as_timedelta
bytes_as_timedelta(text, microseconds_overflow_behavior) ==
    IF text.form = "duration"
    THEN IF text.excess /\ microseconds_overflow_behavior = "Error"
         THEN ParsingError("TimeDeltaParsing", "SecondFractionTooLong")
         ELSE Ok(Duration(TRUE, 0, text.time.second, 0))
    ELSE ParsingError("TimeDeltaParsing", "DurationInvalidNumber")

\* the magnitude of a number
Abs(i) == IF i < 0 THEN 0 - i ELSE i

\* datetime_utils::int_as_duration: the sign, whole days and the seconds left
int_as_duration(total_seconds) ==
    Ok(Duration(total_seconds >= 0,
                Abs(total_seconds) \div SecondsPerDay,
                Abs(total_seconds) % SecondsPerDay, 0))

\* datetime_utils::float_as_duration
float_as_duration(halves) ==
    Ok(Duration(halves >= 0,
                (Abs(halves) \div 2) \div SecondsPerDay,
                (Abs(halves) \div 2) % SecondsPerDay,
                (Abs(halves) % 2) * HalfSecond))

\* input_json.rs:258-266, JsonInput::strict_time
json_strict_time(v, microseconds_overflow_behavior) ==
    IF v.kind = "String"
    THEN bytes_as_time(v.text, microseconds_overflow_behavior)
    ELSE ValErrorNew("TimeType")

\* (mutant) a BigInt is no time: the type error
json_lax_time_bigint_type_error(v, microseconds_overflow_behavior) ==
    CASE v.kind = "String" -> bytes_as_time(v.text, microseconds_overflow_behavior)
      [] v.kind = "Int" -> int_as_time(v.i)
      [] v.kind = "Float" -> float_as_time(v.i)
      [] OTHER -> ValErrorNew("TimeType")

\* input_json.rs:267-285, JsonInput::lax_time
json_lax_time(v, microseconds_overflow_behavior) ==
    CASE v.kind = "String" -> bytes_as_time(v.text, microseconds_overflow_behavior)
      [] v.kind = "Int" -> int_as_time(v.i)
      [] v.kind = "Float" -> float_as_time(v.i)
      [] v.kind = "BigInt" -> ParsingError("TimeParsing", "TimeTooLarge")
      [] OTHER -> ValErrorNew("TimeType")

\* input_json.rs:308-316, JsonInput::strict_timedelta
json_strict_timedelta(v, microseconds_overflow_behavior) ==
    IF v.kind = "String"
    THEN bytes_as_timedelta(v.text, microseconds_overflow_behavior)
    ELSE ValErrorNew("TimeDeltaType")

\* input_json.rs:317-327, JsonInput::lax_timedelta
json_lax_timedelta(v, microseconds_overflow_behavior) ==
    CASE v.kind = "String" -> bytes_as_timedelta(v.text, microseconds_overflow_behavior)
      [] v.kind = "Int" -> int_as_duration(v.i)
      [] v.kind = "Float" -> float_as_duration(v.i)
      [] OTHER -> ValErrorNew("TimeDeltaType")

\* input_abstract.rs:200-206, Input::validate_time
validate_time(v, strict, microseconds_overflow_behavior) ==
    IF strict
    THEN json_strict_time(v, microseconds_overflow_behavior)
    ELSE json_lax_time(v, microseconds_overflow_behavior)

\* input_abstract.rs:226-232, Input::validate_timedelta
validate_timedelta(v, strict, microseconds_overflow_behavior) ==
    IF strict
    THEN json_strict_timedelta(v, microseconds_overflow_behavior)
    ELSE json_lax_timedelta(v, microseconds_overflow_behavior)

\* the strings handed to the conversions
TemporalTexts ==
    {TimeText(Time(0, 0, s, us, None), x) : s \in 0..1, us \in 0..1, x \in BOOLEAN}
    \cup {DateTimeText(d, NoTime, x) : d \in 0..MaxDay, x \in BOOLEAN}
    \cup {DurationText(s, x) : s \in 0..1, x \in BOOLEAN}
    \cup {DateText(0), JunkText}

\* the JSON values handed to the conversions
TemporalInputs ==
    {DateInput("String", 0, t) : t \in TemporalTexts}
    \cup {DateInput(k, i, JunkText) :
            k \in {"Int", "Float"},
            i \in {-1, 0, 1, 3, SecondsPerDay, 2 * SecondsPerDay}}
    \cup {DateInput(k, MaxInt, JunkText) : k \in {"Uint", "BigInt"}}
    \cup {DateInput(k, 0, JunkText) : k \in {"Null", "Bool", "Array", "Object"}}

TemporalTargets == {"time", "datetime", "timedelta"}

TemporalInit ==
    /\ call = "temporal"
    /\ pc = "start"
    /\ validator \in {[type |-> t, strict |-> st, microseconds_precision |-> m] :
                        t \in TemporalTargets, st \in BOOLEAN,
                        m \in MicrosecondsPrecisionOverflowBehaviors}
    /\ extra = [strict |-> None]
    /\ input \in TemporalInputs
    /\ idx = 0
    /\ output = <<>>
    /\ errors = <<>>
    /\ calls = <<>>
    /\ result = NoResult
    /\ stack = <<>>
    /\ recursion_guards = <<>>

\* the rest of a conversion: the result is returned and the call logged
TemporalReturn(method, r) ==
    /\ result' = r
    /\ calls' = <<<<method, validator.strict>>>>
    /\ pc' = "done"
    /\ UNCHANGED <<stack, recursion_guards, call, validator, extra, input, idx, output, errors>>

TemporalValidateTime ==
    /\ call = "temporal" /\ pc = "start" /\ validator.type = "time"
    /\ TemporalReturn("validate_time",
          validate_time(input, validator.strict, validator.microseconds_precision))

TemporalValidateDatetime ==
    /\ call = "temporal" /\ pc = "start" /\ validator.type = "datetime"
    /\ TemporalReturn("validate_datetime",
          validate_datetime(input, validator.strict, validator.microseconds_precision))

TemporalValidateTimedelta ==
    /\ call = "temporal" /\ pc = "start" /\ validator.type = "timedelta"
    /\ TemporalReturn("validate_timedelta",
          validate_timedelta(input, validator.strict, validator.microseconds_precision))

TemporalNext ==
    \/ TemporalValidateTime
    \/ TemporalValidateDatetime
    \/ TemporalValidateTimedelta

SpecTemporal == TemporalInit /\ [][TemporalNext]_vars

----------------------------------------------------------------------------
(* input/input_json.rs: one input validated strictly, then laxly *)

\* a String used as an Input (a JSON object key), input_json.rs:330-334
KeyString(s) == JV("Key", FALSE, 0, s)

\* input_json.rs:86-102, JsonInput::exact_str and validate_str
json_validate_str(v, strict) ==
    IF v.kind = "String"
    THEN ValidationMatch("strict", JsonString(v.s))
    ELSE ValErrorNew("StringType")

\* input_json.rs:370-372, String::validate_str
string_validate_str(v, strict) == ValidationMatch("exact", JsonString(v.s))

\* input_json.rs:382-388, String::validate_bool
string_validate_bool(v, strict) ==
    IF strict THEN ValErrorNew("BoolType") ELSE MatchLax(str_as_bool(v.s))

\* input_json.rs:390-399, String::validate_int: str::parse, then I64 or
\* IntParsing
string_validate_int(v, strict) ==
    IF strict THEN ValErrorNew("IntType")
    ELSE IF \E p \in StrInts : p[1] = v.s
         THEN ValidationMatch("lax", JsonInt((CHOOSE p \in StrInts : p[1] = v.s)[2]))
         ELSE ValErrorNew("IntParsing")

\* input_json.rs:401-407, String::validate_float
string_validate_float(v, strict) ==
    IF strict THEN ValErrorNew("FloatType") ELSE MatchLax(str_as_float(v.s))

\* input.validate_str / validate_bool / validate_int / validate_float of the
\* input's implementation
scalar_validate(target, v, strict) ==
    IF v.kind = "Key"
    THEN CASE target = "str" -> string_validate_str(v, strict)
           [] target = "bool" -> string_validate_bool(v, strict)
           [] target = "int" -> string_validate_int(v, strict)
           [] OTHER -> string_validate_float(v, strict)
    ELSE CASE target = "str" -> json_validate_str(v, strict)
           [] target = "bool" -> json_validate_bool(v, strict)
           [] target = "int" -> json_validate_int(v, strict)
           [] OTHER -> json_validate_float(v, strict)

PairTargets == {"str"} \cup ScalarTargets

PairInit ==
    /\ call = "pair"
    /\ pc = "start"
    /\ validator \in {[type |-> t, strict |-> TRUE] : t \in PairTargets}
    /\ extra = [strict |-> None]
    /\ input \in JsonValues \cup {KeyString(x) : x \in JsonStrings}
    /\ idx = 0
    /\ output = <<>>
    /\ errors = <<>>
    /\ calls = <<>>
    /\ result = NoResult
    /\ stack = <<>>
    /\ recursion_guards = <<>>

\* the input is validated with strict = true; `output` keeps what came back
PairValidateStrict ==
    /\ call = "pair" /\ pc = "start"
    /\ result' = scalar_validate(validator.type, input, TRUE)
    /\ output' = Some(result')
    /\ calls' = <<<<"validate_" \o validator.type, TRUE>>>>
    /\ pc' = "strict"
    /\ UNCHANGED <<stack, recursion_guards, call, validator, extra, input, idx, errors>>

\* the same input is validated with strict = false
PairValidateLax ==
    /\ call = "pair" /\ pc = "strict"
    /\ validator' = [validator EXCEPT !.strict = FALSE]
    /\ result' = scalar_validate(validator.type, input, FALSE)
    /\ calls' = Append(calls, <<"validate_" \o validator.type, FALSE>>)
    /\ pc' = "done"
    /\ UNCHANGED <<stack, recursion_guards, call, extra, input, idx, output, errors>>

PairNext == PairValidateStrict \/ PairValidateLax

SpecPair == PairInit /\ [][PairNext]_vars

----------------------------------------------------------------------------
(* The string-mapping input, input/input_string.rs *)

\* a StringMapping: the String variant with its characters, how they read
\* under the date and time grammar and whether they are valid Unicode, or
\* the Mapping variant
SmString(s, text, valid) == [kind |-> "String", s |-> s, text |-> text, valid |-> valid]
SmMapping == [kind |-> "Mapping", s |-> "", text |-> JunkText, valid |-> TRUE]

\* py_string_str followed by the conversion f: the characters of a Python
\* str, or StringUnicode when they cannot be encoded
py_string_str(v, r) == IF v.valid THEN r ELSE ValErrorNew("StringUnicode")

\* input_string.rs:218-223, strict_str
sm_strict_str(v) ==
    IF v.kind = "String" THEN Ok(<<"str", v.s>>) ELSE ValErrorNew("StringType")

\* input_string.rs:225-230, strict_bytes
sm_strict_bytes(v) ==
    IF v.kind = "String"
    THEN py_string_str(v, Ok(<<"bytes", v.s>>))
    ELSE ValErrorNew("BytesType")

\* (mutant) lax_bytes encodes what it can and never fails on a String
sm_lax_bytes_lossy(v) ==
    IF v.kind = "String" THEN Ok(<<"bytes", v.s>>) ELSE ValErrorNew("BytesType")

\* input_string.rs:232-240, lax_bytes
sm_lax_bytes(v) ==
    IF v.kind = "String"
    THEN py_string_str(v, Ok(<<"bytes", v.s>>))
    ELSE ValErrorNew("BytesType")

\* input_string.rs:242-247, strict_bool
sm_strict_bool(v) ==
    IF v.kind = "String" THEN py_string_str(v, str_as_bool(v.s)) ELSE ValErrorNew("BoolType")

\* input_string.rs:249-257, strict_int: str::parse, then I64 or IntParsing
sm_strict_int(v) ==
    IF v.kind = "String"
    THEN py_string_str(v,
            IF \E p \in StrInts : p[1] = v.s
            THEN Ok(JsonInt((CHOOSE p \in StrInts : p[1] = v.s)[2]))
            ELSE ValErrorNew("IntParsing"))
    ELSE ValErrorNew("IntType")

\* input_string.rs:263-268, strict_float
sm_strict_float(v) ==
    IF v.kind = "String" THEN py_string_str(v, str_as_float(v.s)) ELSE ValErrorNew("FloatType")

\* input_string.rs:259-261, ultra_strict_float
sm_ultra_strict_float(v) == sm_strict_float(v)

\* input_string.rs:277-282, strict_dict
sm_strict_dict(v) ==
    IF v.kind = "String" THEN ValErrorNew("DictType") ELSE Ok(<<"StringMapping">>)

\* input_string.rs:308-313, strict_date
sm_strict_date(v) ==
    IF v.kind = "String" THEN py_string_str(v, bytes_as_date(v.text)) ELSE ValErrorNew("DateType")

\* input_string.rs:315-323, strict_time
sm_strict_time(v, microseconds_overflow_behavior) ==
    IF v.kind = "String"
    THEN py_string_str(v, bytes_as_time(v.text, microseconds_overflow_behavior))
    ELSE ValErrorNew("TimeType")

\* input_string.rs:325-333, strict_datetime
sm_strict_datetime(v, microseconds_overflow_behavior) ==
    IF v.kind = "String"
    THEN py_string_str(v, bytes_as_datetime(v.text, microseconds_overflow_behavior))
    ELSE ValErrorNew("DatetimeType")

\* input_string.rs:335-343, strict_timedelta
sm_strict_timedelta(v, microseconds_overflow_behavior) ==
    IF v.kind = "String"
    THEN py_string_str(v, bytes_as_timedelta(v.text, microseconds_overflow_behavior))
    ELSE ValErrorNew("TimeDeltaType")

\* input_string.rs:218-343: strict_X of the kind (for list, tuple, set,
\* frozenset and iter, :284-306, the type error whatever the variant)
sm_strict(kind, v, microseconds_overflow_behavior) ==
    CASE kind = "str" -> sm_strict_str(v)
      [] kind = "bytes" -> sm_strict_bytes(v)
      [] kind = "bool" -> sm_strict_bool(v)
      [] kind = "int" -> sm_strict_int(v)
      [] kind = "float" -> sm_strict_float(v)
      [] kind = "dict" -> sm_strict_dict(v)
      [] kind = "list" -> ValErrorNew("ListType")
      [] kind = "tuple" -> ValErrorNew("TupleType")
      [] kind = "set" -> ValErrorNew("SetType")
      [] kind = "frozenset" -> ValErrorNew("FrozenSetType")
      [] kind = "iter" -> ValErrorNew("IterableType")
      [] kind = "date" -> sm_strict_date(v)
      [] kind = "time" -> sm_strict_time(v, microseconds_overflow_behavior)
      [] kind = "datetime" -> sm_strict_datetime(v, microseconds_overflow_behavior)
      [] OTHER -> sm_strict_timedelta(v, microseconds_overflow_behavior)

\* the methods StringMapping gives the Input interface for one kind: its
\* strict_X, its ultra_strict_float, and its own lax_X, which it defines for
\* bytes alone
sm_representation(kind, v, microseconds_overflow_behavior) ==
    [strict |-> sm_strict(kind, v, microseconds_overflow_behavior),
     ultra_strict |-> IF kind = "float" THEN sm_ultra_strict_float(v)
                      ELSE sm_strict(kind, v, microseconds_overflow_behavior),
     lax |-> IF kind = "bytes" THEN Some(sm_lax_bytes(v)) ELSE None]

\* input.validate_X(strict) on a StringMapping; validate_iter has no mode
sm_validate(kind, v, strict, microseconds_overflow_behavior) ==
    LET rep == sm_representation(kind, v, microseconds_overflow_behavior) IN
    CASE kind = "float" -> validate_float(rep, strict, FALSE)
      [] kind = "iter" -> rep.strict
      [] OTHER -> validate_kind(rep, strict)

SmKinds ==
    {"str", "bytes", "bool", "int", "float", "dict", "list", "tuple", "set",
     "frozenset", "iter", "date", "time", "datetime", "timedelta"}

\* the strings that read as a date, a datetime, a time, a duration
SmTemporalStrings ==
    {<<"1970-01-01", DateText(0)>>,
     <<"1970-01-01T00:00:00.0000001", DateTimeText(0, NoTime, TRUE)>>,
     <<"00:00:01", TimeText(Time(0, 0, 1, 0, None), FALSE)>>,
     <<"PT1S", DurationText(1, FALSE)>>}

SmValues ==
    {SmString(x, JunkText, TRUE) : x \in JsonStrings}
    \cup {SmString(p[1], p[2], TRUE) : p \in SmTemporalStrings}
    \cup {SmString("1", JunkText, FALSE), SmMapping}

SmInit ==
    /\ call = "string_mapping"
    /\ pc = "start"
    /\ validator \in {[type |-> k, strict |-> TRUE, microseconds_precision |-> m] :
                        k \in SmKinds, m \in MicrosecondsPrecisionOverflowBehaviors}
    /\ extra = [strict |-> None]
    /\ input \in SmValues
    /\ idx = 0
    /\ output = <<>>
    /\ errors = <<>>
    /\ calls = <<>>
    /\ result = NoResult
    /\ stack = <<>>
    /\ recursion_guards = <<>>

\* the input is converted with strict = true; `output` keeps what came back
SmValidateStrict ==
    /\ call = "string_mapping" /\ pc = "start"
    /\ result' = sm_validate(validator.type, input, TRUE, validator.microseconds_precision)
    /\ output' = Some(result')
    /\ calls' = <<<<validator.type, TRUE>>>>
    /\ pc' = "strict"
    /\ UNCHANGED <<stack, recursion_guards, call, validator, extra, input, idx, errors>>

\* the same input is converted with strict = false
SmValidateLax ==
    /\ call = "string_mapping" /\ pc = "strict"
    /\ validator' = [validator EXCEPT !.strict = FALSE]
    /\ result' = sm_validate(validator.type, input, FALSE, validator.microseconds_precision)
    /\ calls' = Append(calls, <<validator.type, FALSE>>)
    /\ pc' = "done"
    /\ UNCHANGED <<stack, recursion_guards, call, extra, input, idx, output, errors>>

SmNext == SmValidateStrict \/ SmValidateLax

SpecStringMapping == SmInit /\ [][SmNext]_vars

----------------------------------------------------------------------------
(* Any one validation call *)

Init == DictInit \/ ListInit \/ JsonInit \/ DateInit \/ StateInit \/ InputInit \/ ShapeInit \/ TemporalInit \/ PairInit \/ SmInit

Next == DictNext \/ ListNext \/ JsonNext \/ DateNext \/ StateNext \/ InputNext \/ ShapeNext \/ TemporalNext \/ PairNext \/ SmNext

Spec == Init /\ [][Next]_vars

----------------------------------------------------------------------------
(* Vocabulary of the dict claims, stated over the input and the trace of   *)
(* sub-validator invocations, not over the walk's own variables.           *)

Items == input.items

\* the call ran the dict validator over a mapping and has returned
DictDone == call = "dict" /\ pc = "done" /\ input.kind = "Object"

\* the iterator yields item i: it stops at its first error
Yielded(i) == \A j \in 1..i : Items[j].iter = "Ok"
IteratorFailed == \E i \in DOMAIN Items : Items[i].iter # "Ok"

\* the key / value sub-validator was invoked on item i
KeyRan(i) == \E c \in DOMAIN calls : calls[c][1] = "key" /\ calls[c][2] = i
ValueRan(i) == \E c \in DOMAIN calls : calls[c][1] = "value" /\ calls[c][2] = i

\* what the sub-validator returned to the dict validator for item i
KeyReturned(i, tag) == KeyRan(i) /\ key_validate(Items[i]).tag = tag
ValueReturned(i, tag) == ValueRan(i) /\ value_validate(Items[i]).tag = tag

SubValidatorFatal ==
    \E i \in DOMAIN Items : KeyReturned(i, "InternalErr") \/ ValueReturned(i, "InternalErr")

\* item i failed key or value validation with line errors
ItemFailed(i) == KeyReturned(i, "LineErrors") \/ ValueReturned(i, "LineErrors")
FailedItems == {i \in DOMAIN Items : ItemFailed(i)}

\* the location a line error with inner path P leaves the dict validator with
KeyErrorLoc(key, P) == <<LocS(key), LocS("[key]")>> \o P
ValueErrorLoc(key, P) == <<LocS(key)>> \o P

\* the line errors the call returned
Returned == IF result.tag = "LineErrors" THEN result.errors ELSE <<>>
Reported(type, loc) ==
    \E j \in DOMAIN Returned : Returned[j].type = type /\ Returned[j].loc = loc

\* every line error a sub-validator returned for item i is in the result
ItemErrorsReported(i) ==
    /\ KeyReturned(i, "LineErrors") =>
          \A e \in Range(key_validate(Items[i]).errors) :
              Reported(e.type, KeyErrorLoc(Items[i].key, e.loc))
    /\ ValueReturned(i, "LineErrors") =>
          \A e \in Range(value_validate(Items[i]).errors) :
              Reported(e.type, ValueErrorLoc(Items[i].key, e.loc))

\* number of line errors the sub-validators returned for item i
ItemErrorCount(i) ==
    (IF KeyReturned(i, "LineErrors") THEN Len(key_validate(Items[i]).errors) ELSE 0)
    + (IF ValueReturned(i, "LineErrors") THEN Len(value_validate(Items[i]).errors) ELSE 0)

RECURSIVE SumTo(_, _)
SumTo(F(_), n) == IF n = 0 THEN 0 ELSE F(n) + SumTo(F, n - 1)

IsLengthError(e) == e.type \in {"TooShort", "TooLong"}
HasLengthError == \E j \in DOMAIN Returned : IsLengthError(Returned[j])
HasItemError == \E j \in DOMAIN Returned : ~IsLengthError(Returned[j])

\* the size of the output violates a length bound of the validator
SizeViolatesBound ==
    \/ IsSome(validator.min_length) /\ dict_len(output) < Unwrap(validator.min_length)
    \/ IsSome(validator.max_length) /\ dict_len(output) > Unwrap(validator.max_length)

----------------------------------------------------------------------------
(* C1 *)

----------------------------------------------------------------------------
(* C2 *)

\* the walk reached the end of the mapping: nothing aborted it
WalkCompleted == DictDone /\ ~SubValidatorFatal /\ ~IteratorFailed

DistinctLocs(es) == \A i, j \in DOMAIN es : i # j => es[i].loc # es[j].loc

\* the returned error j stems from item i: its path starts with i's key
FromItem(j, i) == Returned[j].loc # <<>> /\ Head(Returned[j].loc) = LocS(Items[i].key)

\* the returned error j is a line error some sub-validator returned for
\* item i, with the location the dict validator gives it
CorrectLoc(j, i) ==
    \/ /\ KeyReturned(i, "LineErrors")
       /\ \E e \in Range(key_validate(Items[i]).errors) :
             Returned[j] = LineError(e.type, KeyErrorLoc(Items[i].key, e.loc))
    \/ /\ ValueReturned(i, "LineErrors")
       /\ \E e \in Range(value_validate(Items[i]).errors) :
             Returned[j] = LineError(e.type, ValueErrorLoc(Items[i].key, e.loc))

\* C2, as stated: when K > 0 of the N items fail key or value validation,
\* the result holds exactly K line errors with distinct, correct locations.
C2_AsStated ==
    (WalkCompleted /\ FailedItems # {}) =>
        /\ result.tag = "LineErrors"
        /\ Len(Returned) = Cardinality(FailedItems)
        /\ DistinctLocs(Returned)
        /\ \A j \in DOMAIN Returned : \E i \in FailedItems : CorrectLoc(j, i)

\* C2, amended: the result holds one line error for each line error a key
\* or value sub-validator returned, so at least K of them, and exactly K when
\* every failing item returned a single line error; each has the correct
\* location, and errors of different items have different locations,
\* wherever the failing items sit in the mapping.
C2_OneErrorPerReturnedError ==
    (WalkCompleted /\ FailedItems # {}) =>
        /\ result.tag = "LineErrors"
        /\ Len(Returned) = SumTo(ItemErrorCount, Len(Items))
        /\ Len(Returned) >= Cardinality(FailedItems)
        /\ (\A i \in FailedItems : ItemErrorCount(i) = 1) =>
               Len(Returned) = Cardinality(FailedItems)
        /\ \A j, k \in DOMAIN Returned, i \in FailedItems :
               (FromItem(j, i) /\ ~FromItem(k, i)) => Returned[j].loc # Returned[k].loc
        /\ \A j \in DOMAIN Returned : \E i \in FailedItems : CorrectLoc(j, i)
        /\ \A i \in FailedItems : ItemErrorsReported(i)

\* one failing item out of two, in second place, that fails on its key and
\* on its value: K = 1 and three line errors
C2_Witness ==
    /\ WalkCompleted
    /\ Len(Items) = 2
    /\ FailedItems = {2}
    /\ KeyReturned(2, "LineErrors") /\ ValueReturned(2, "LineErrors")
    /\ Len(Returned) = 3

----------------------------------------------------------------------------
(* C3 *)

\* the step of the walk at which a fatal error was returned, if any
FatalAt(i) ==
    \/ Yielded(i - 1) /\ Items[i].iter # "Ok"
    \/ KeyReturned(i, "InternalErr")
    \/ ValueReturned(i, "InternalErr")

\* the origin of the fatal error returned at step i
FatalOrigin(i) ==
    IF Items[i].iter # "Ok" THEN "iter"
    ELSE IF key_validate(Items[i]).tag = "InternalErr" THEN "key" ELSE "value"

\* C3: when a key or value sub-validator, or the mapping iterator, returns a
\* fatal error, the call returns that very error, validates nothing after it
\* and returns none of the line errors collected before it.
C3_FatalAbortsImmediately ==
    DictDone =>
        \A i \in DOMAIN Items :
            (FatalAt(i) /\ \A h \in 1..(i - 1) : ~FatalAt(h)) =>
                /\ result.tag = "InternalErr"
                /\ result.origin = FatalOrigin(i)
                /\ result.errors = <<>>
                /\ Returned = <<>>
                /\ KeyReturned(i, "InternalErr") => ~ValueRan(i)
                /\ \A j \in DOMAIN Items : j > i => ~KeyRan(j) /\ ~ValueRan(j)

\* a line error was collected for the first item, the second item's value
\* sub-validator then returned a fatal error, and that error is the result
C3_Witness ==
    /\ DictDone
    /\ Len(Items) >= 2
    /\ ItemFailed(1)
    /\ errors # <<>>
    /\ ValueReturned(2, "InternalErr")
    /\ result.tag = "InternalErr"

----------------------------------------------------------------------------
(* C4 *)

\* item i was omitted: its key or its value sub-validator returned Omit
Omitted(i) == KeyReturned(i, "Omit") \/ ValueReturned(i, "Omit")

\* error e of the list es is recorded for item i
RecordedFor(es, i) == {j \in DOMAIN es : es[j].loc # <<>> /\ Head(es[j].loc) = LocS(Items[i].key)}

\* the output holds no value of item i
AbsentFromOutput(i) == \A o \in DOMAIN output : output[o][2] # <<"v", Items[i].key>>

\* C4, as stated: an omitted item is absent from the output, no error is
\* recorded for it, and the items after it are still validated.
C4_AsStated ==
    WalkCompleted =>
        \A i \in DOMAIN Items : Omitted(i) =>
            /\ AbsentFromOutput(i)
            /\ RecordedFor(errors, i) = {}
            /\ \A j \in DOMAIN Items : j > i => KeyRan(j)

\* C4, amended: an omitted item is absent from the output and the omitting
\* sub-validator records no error for it: nothing at all is recorded when
\* the key returned Omit (the value is then not validated), and only the
\* key's own line errors, collected before, when the value returned Omit;
\* the items after it are still validated.
C4_OmitSkipsItem ==
    WalkCompleted =>
        \A i \in DOMAIN Items : Omitted(i) =>
            /\ AbsentFromOutput(i)
            /\ KeyReturned(i, "Omit") => RecordedFor(errors, i) = {} /\ ~ValueRan(i)
            /\ ValueReturned(i, "Omit") =>
                  /\ \A j \in RecordedFor(errors, i) :
                        Len(errors[j].loc) >= 2 /\ errors[j].loc[2] = LocS("[key]")
                  /\ Cardinality(RecordedFor(errors, i)) =
                        IF KeyReturned(i, "LineErrors")
                        THEN Len(key_validate(Items[i]).errors) ELSE 0
            /\ \A j \in DOMAIN Items : j > i => KeyRan(j)

\* the first item's value is omitted after its key validated, the second
\* item is validated and is the only entry of the output
C4_Witness ==
    /\ WalkCompleted
    /\ Len(Items) = 2
    /\ KeyReturned(1, "Ok") /\ ValueReturned(1, "Omit")
    /\ KeyReturned(2, "Ok") /\ ValueReturned(2, "Ok")
    /\ result.tag = "Ok"
    /\ dict_len(result.value) = 1

----------------------------------------------------------------------------
(* C5 *)

\* the items whose key and value both validated
GoodItems == {i \in DOMAIN Items : KeyReturned(i, "Ok") /\ ValueReturned(i, "Ok")}
ValidatedKey(i) == key_validate(Items[i]).value
ValidatedValue(i) == value_validate(Items[i]).value
ValidatedPairs == {<<ValidatedKey(i), ValidatedValue(i)>> : i \in GoodItems}

\* C5, as stated: the call returns an output or an error list, never both;
\* an output only if no line error was collected, and then exactly the
\* validated pairs of the items whose key and value both validated; the
\* error list, without the output, if any line error was collected.
C5_AsStated ==
    DictDone =>
        /\ result.tag = "Ok" =>
              /\ FailedItems = {}
              /\ result.errors = <<>>
              /\ Range(result.value) = ValidatedPairs
        /\ FailedItems # {} =>
              /\ result.tag = "LineErrors"
              /\ result.value = <<>>
              /\ \A i \in FailedItems : ItemErrorsReported(i)

\* C5, amended: the call returns an output or an error, never both; an
\* output only if no line error was collected, and it then maps each
\* validated key to the validated value of the last item with that validated
\* key (a later pair replaces an earlier one with an equal key); if any line
\* error was collected the output is discarded, and the result is the error
\* list unless a fatal error ended the walk.
C5_OutputXorErrors ==
    DictDone =>
        /\ result.tag = "Ok" =>
              /\ FailedItems = {}
              /\ result.errors = <<>>
              /\ {p[1] : p \in Range(result.value)} = {ValidatedKey(i) : i \in GoodItems}
              /\ \A a, b \in DOMAIN result.value :
                    a # b => result.value[a][1] # result.value[b][1]
              /\ \A p \in Range(result.value) : \E i \in GoodItems :
                    /\ p = <<ValidatedKey(i), ValidatedValue(i)>>
                    /\ \A j \in GoodItems : ValidatedKey(j) = p[1] => j <= i
        /\ FailedItems # {} =>
              /\ result.tag # "Ok"
              /\ result.value = <<>>
              /\ WalkCompleted =>
                    /\ result.tag = "LineErrors"
                    /\ \A i \in FailedItems : ItemErrorsReported(i)

\* one item validates, the other fails: the result is the error list, and
\* the pair already inserted in the output is not returned
C5_Witness ==
    /\ DictDone
    /\ Len(Items) = 2
    /\ GoodItems = {1}
    /\ FailedItems = {2}
    /\ output # <<>>
    /\ result.tag = "LineErrors"
    /\ result.value = <<>>

----------------------------------------------------------------------------
(* C6 *)

\* every item of the mapping was iterated and validated
AllItemsValidated ==
    /\ idx = Len(Items)
    /\ \A i \in DOMAIN Items :
          KeyRan(i) /\ (ValueRan(i) \/ KeyReturned(i, "Omit"))

\* C6: a length bound is checked only after every item has been iterated and
\* validated; and when some items fail and the final size violates a bound,
\* every per-item error is still reported.
C6_LengthCheckedAfterWalk ==
    /\ (call = "dict" /\ HasLengthError) => (pc = "done" /\ AllItemsValidated)
    /\ (WalkCompleted /\ FailedItems # {} /\ SizeViolatesBound) =>
          /\ result.tag = "LineErrors"
          /\ \A i \in FailedItems : ItemErrorsReported(i)

\* the first item validated, the second failed, the output of one pair is
\* shorter than min_length, and the item's error is returned
C6_Witness ==
    /\ WalkCompleted
    /\ Len(Items) = 2
    /\ FailedItems = {2}
    /\ dict_len(output) = 1
    /\ IsSome(validator.min_length) /\ dict_len(output) < Unwrap(validator.min_length)
    /\ ItemErrorsReported(2)

----------------------------------------------------------------------------
(* C7 *)

\* C7, as stated (the postcondition it is quoted from): when items produce
\* line errors and the final size violates a length bound, the returned
\* error list holds the item errors and the length error.
C7_AsStated ==
    (WalkCompleted /\ FailedItems # {} /\ SizeViolatesBound) =>
        (HasItemError /\ HasLengthError)

\* C7, amended: length errors and item errors never co-occur: the length
\* bounds are checked only when no item produced a line error, so a returned
\* length error is the only error, and when items produce line errors the
\* list holds the item errors alone, whatever the final size.
C7_LengthAndItemErrorsExclusive ==
    DictDone =>
        /\ ~(HasItemError /\ HasLengthError)
        /\ HasLengthError => (FailedItems = {} /\ Len(Returned) = 1)
        /\ FailedItems # {} => ~HasLengthError

\* every item failed, so the empty output is shorter than min_length: only
\* the items' errors are returned
C7_Witness ==
    /\ WalkCompleted
    /\ Len(Items) = 2
    /\ FailedItems = {1, 2}
    /\ output = <<>>
    /\ SizeViolatesBound
    /\ HasItemError
    /\ ~HasLengthError

----------------------------------------------------------------------------
(* C8 *)

ListDone == call = "list" /\ pc = "done" /\ input.kind = "Array"

\* the item validator was invoked on item i
ItemRan(i) == \E c \in DOMAIN calls : calls[c][1] = "item" /\ calls[c][2] = i

\* the items the item validator rejects with a line error
BadListItems == {i \in DOMAIN Items : item_validate(Items[i], i - 1).tag = "LineErrors"}

\* the length of the list violates a bound of the validator
ListLengthViolatesBound ==
    \/ IsSome(validator.min_items) /\ Len(Items) < Unwrap(validator.min_items)
    \/ IsSome(validator.max_items) /\ Len(Items) > Unwrap(validator.max_items)

\* C8, as stated: the list validator evaluates its length bounds only after
\* the items have been validated, as the dict validator does, so the errors
\* of the items are reported even when the length violates a bound.
C8_AsStated ==
    (/\ ListDone
     /\ validator.item_validator
     /\ \A i \in DOMAIN Items : Items[i].ikind # "fatal"
     /\ BadListItems # {}
     /\ ListLengthViolatesBound) =>
        /\ \A i \in DOMAIN Items : ItemRan(i)
        /\ result.tag = "LineErrors"
        /\ \A i \in BadListItems : Reported("ItemErr", <<LocI(i - 1)>>)

----------------------------------------------------------------------------
(* C9 *)

JsonDone == call = "json" /\ pc = "done"

\* the conversion of the JSON value v to the target, strict or lax
JsonConvert(target, v, strict) ==
    CASE target = "bool" -> json_validate_bool(v, strict)
      [] target = "int"  -> json_validate_int(v, strict)
      [] OTHER           -> json_validate_float(v, strict)

\* the tier of the input for the target: the tag of its match when every
\* coercion is allowed, "none" when it does not match at all
Tier(target, v) ==
    LET r == JsonConvert(target, v, FALSE)
    IN IF r.tag = "Ok" THEN r.value[1] ELSE "none"

\* the type-mismatch error of the target
TypeMismatch(target) ==
    CASE target = "bool" -> "BoolType"
      [] target = "int"  -> "IntType"
      [] OTHER           -> "FloatType"

IsTypeMismatch(r, target) ==
    /\ r.tag = "LineErrors"
    /\ Len(r.errors) = 1
    /\ r.errors[1].type = TypeMismatch(target)

\* C9: for JSON input and the targets bool, int and float, strict validation
\* accepts every input of the exact and strict tiers and rejects every input
\* that is only lax-coercible with the target's type-mismatch error; lax
\* validation accepts the inputs of all three tiers.
C9_StrictRejectsLaxOnly ==
    JsonDone =>
        LET tier == Tier(validator.type, input) IN
        /\ (validator.strict /\ tier \in {"exact", "strict"}) =>
              (result.tag = "Ok" /\ result.value[1] = tier)
        /\ (validator.strict /\ tier = "lax") => IsTypeMismatch(result, validator.type)
        /\ (~validator.strict /\ tier \in {"exact", "strict", "lax"}) =>
              (result.tag = "Ok" /\ result.value[1] = tier)

\* the string "1" is only lax-coercible to an int: strict validation rejects
\* it with IntType
C9_Witness ==
    /\ JsonDone
    /\ validator.type = "int"
    /\ validator.strict
    /\ input = JsonString("1")
    /\ Tier("int", input) = "lax"
    /\ IsTypeMismatch(result, "int")

----------------------------------------------------------------------------
(* C10 *)

DateDone == call = "date" /\ pc = "done"

\* the effective strictness of the call: the override, else the validator's flag
EffectiveStrict == UnwrapOr(extra.strict, validator.strict)

\* the input is not a date
NotADate == validate_date(input, FALSE).tag # "Ok"

\* the input is a datetime: read with every coercion allowed, it is one
IsDatetime == validate_datetime(input, FALSE, "Truncate").tag = "Ok"
TheDatetime == validate_datetime(input, FALSE, "Truncate").value

TimeIsZero(t) == t.hour = 0 /\ t.minute = 0 /\ t.second = 0 /\ t.microsecond = 0

\* the call ended with exactly this one error
FailedWith(type) ==
    /\ result.tag = "LineErrors"
    /\ Len(result.errors) = 1
    /\ result.errors[1].type = type

\* C10: in lax date validation, an input that is not a date but is a datetime
\* yields the datetime's date when hour, minute, second and microsecond are
\* all zero, whatever the timezone offset, and fails with
\* DateFromDatetimeInexact (not the date type error) when one of them is not.
C10_AsStated ==
    (DateDone /\ ~EffectiveStrict /\ NotADate /\ IsDatetime) =>
        IF TimeIsZero(TheDatetime.time)
        THEN output = Some(TheDatetime.date)
        ELSE FailedWith("DateFromDatetimeInexact")

----------------------------------------------------------------------------
(* C11 *)

\* date.rs:57 ran: the input was asked for a datetime
FallbackAttempted == \E i \in DOMAIN calls : calls[i][1] = "validate_datetime"

\* the error of the input's date validation
TheDateError == validate_date(input, EffectiveStrict)

\* C11: whenever the effective strictness of a date validation is strict (the
\* per-call override if present, else the validator's own flag), the datetime
\* fallback is never attempted and a datetime input is rejected with the date
\* error; in particular for a validator built non-strict called with the
\* override strict = true.
C11_AsStated ==
    (DateDone /\ EffectiveStrict) =>
        /\ ~FallbackAttempted
        /\ (NotADate /\ IsDatetime) => (result = TheDateError /\ output = None)

----------------------------------------------------------------------------
(* Vocabulary of the validation-state claims *)

\* the order Lax < Strict < Exact; an unknown exactness ranks below all
Rank(e) == CASE e = "Lax" -> 1 [] e = "Strict" -> 2 [] OTHER -> 3
RankOpt(o) == IF IsSome(o) THEN Rank(Unwrap(o)) ELSE 0
LowerOf(a, b) == IF Rank(a) <= Rank(b) THEN a ELSE b
\* the lowest exactness of a non-empty set
Lowest(S) == CHOOSE e \in S : \A x \in S : Rank(e) <= Rank(x)

\* the exactness of the innermost state
Exactness == stack[TopState].exactness

\* the step is the operation `op`, logged with argument `arg`
Did(op, arg) == calls' = Append(calls, <<op, arg>>)

\* the log ends with the seeding of the exactness at position k followed by
\* calls of set_exactness_ceiling only
CeilingsSince(k) ==
    /\ k \in DOMAIN calls
    /\ calls[k][1] = "seed"
    /\ \A i \in DOMAIN calls : (i > k) => calls[i][1] = "set_exactness_ceiling"
CeilingArgs(k) == {calls[i][2] : i \in {j \in DOMAIN calls : j > k}}

----------------------------------------------------------------------------
(* C12 *)

\* one call of set_exactness_ceiling(e) on a known exactness leaves the lower
\* of the two, and never a higher exactness than before
CeilingStep ==
    \A e \in Exactnesses :
        (call = "state" /\ Did("set_exactness_ceiling", e)) =>
            /\ IsSome(Exactness) =>
                   stack'[TopState].exactness = Some(LowerOf(Unwrap(Exactness), e))
            /\ RankOpt(stack'[TopState].exactness) <= RankOpt(Exactness)

\* starting from Exact, after any sequence of calls the exactness is the
\* lowest of the arguments passed: a function of the set of arguments, not of
\* their order
CeilingIsMinimum ==
    \A k \in DOMAIN calls :
        (call = "state" /\ CeilingsSince(k)) =>
            Exactness = Some(Lowest(CeilingArgs(k) \cup {"Exact"}))

\* C12: set_exactness_ceiling(e) sets the exactness to the lower of the
\* current exactness and e under Lax < Strict < Exact; starting from Exact,
\* after any sequence of calls the exactness is the minimum of all arguments,
\* whatever their order, and it never increases from one call to the next.
C12_CeilingIsMinimum == [][CeilingStep]_vars /\ []CeilingIsMinimum

\* from Exact, the ceilings Lax then Exact leave Lax: the later, higher
\* argument does not raise the exactness
C12_Witness ==
    /\ call = "state"
    /\ calls = <<<<"seed", "Exact">>, <<"set_exactness_ceiling", "Lax">>,
                 <<"set_exactness_ceiling", "Exact">>>>
    /\ Exactness = Some("Lax")

----------------------------------------------------------------------------
(* C13 *)

\* the innermost ValidationState of a stack of frames
TopStateOf(st) == CHOOSE i \in DOMAIN st :
                      /\ st[i].kind = "state"
                      /\ \A j \in DOMAIN st : (j > i) => st[j].kind # "state"

\* the lower of two exactnesses, either of which may be unknown
LowerOfOpt(a, b) == IF RankOpt(a) <= RankOpt(b) THEN a ELSE b

\* with_new_extra hands the closure a state seeded with the enclosing
\* state's exactness and holding the new extra
NestedSeeded ==
    \A ex \in Extras :
        (call = "state" /\ Did("with_new_extra", ex)) =>
            /\ Len(stack') = Len(stack) + 1
            /\ stack'[Len(stack')].kind = "state"
            /\ stack'[Len(stack')].exactness = Exactness
            /\ stack'[Len(stack')].extra = ex
            /\ SubSeq(stack', 1, Len(stack)) = stack

\* when the closure has returned: an unknown nested exactness makes the
\* enclosing one unknown, a known one lowers it to the lower of the two, and
\* the enclosing exactness is never higher than before
NestedPropagated ==
    (call = "state" /\ Did("with_new_extra_return", "")) =>
        LET nested == Top.exactness
            before == stack[TopStateOf(Pop)].exactness
            after == stack'[TopStateOf(stack')].exactness
        IN /\ Len(stack') = Len(stack) - 1
           /\ TopStateOf(stack') = TopStateOf(Pop)
           /\ (nested = None) => (after = None)
           /\ (IsSome(nested) /\ IsSome(before)) =>
                  after = Some(LowerOf(Unwrap(before), Unwrap(nested)))
           /\ after = LowerOfOpt(before, nested)
           /\ RankOpt(after) <= RankOpt(before)

\* C13: with_new_extra seeds the nested state with the enclosing state's
\* exactness; when the closure returns, an unknown nested exactness makes the
\* enclosing exactness unknown, otherwise the enclosing exactness becomes the
\* lower of its previous value and the nested value; it is never higher
\* after the call than before it.
C13_NestedExactnessPropagates == [][NestedSeeded /\ NestedPropagated]_vars

\* a branch seeded Exact whose nested validation was lax: the enclosing
\* state leaves with_new_extra with Lax
C13_Witness ==
    /\ call = "state"
    /\ Len(calls) = 4
    /\ calls[1] = <<"seed", "Exact">>
    /\ calls[2][1] = "with_new_extra"
    /\ calls[3] = <<"set_exactness_ceiling", "Lax">>
    /\ calls[4] = <<"with_new_extra_return", "">>
    /\ Len(stack) = 1
    /\ Exactness = Some("Lax")

----------------------------------------------------------------------------
(* C14 *)

\* how many operations `op` the log holds after position i
CountAfter(op, i) == Cardinality({j \in DOMAIN calls : j > i /\ calls[j][1] = op})

\* the rebind_extra whose guard is the innermost one still open
OpenRebind ==
    CHOOSE i \in DOMAIN calls :
        /\ calls[i][1] = "rebind_extra"
        /\ CountAfter("rebind_extra", i) = CountAfter("drop", i)
        /\ \A j \in DOMAIN calls :
              (j > i /\ calls[j][1] = "rebind_extra") =>
                  CountAfter("rebind_extra", j) # CountAfter("drop", j)

\* the drop of a guard gives the state the extra it had just before the
\* rebind_extra that returned the guard
DropRestores ==
    (call = "state" /\ Did("drop", "")) =>
        /\ Len(stack') = Len(stack) - 1
        /\ stack'[TopStateOf(stack')].extra = calls[OpenRebind][3]
        /\ stack'[TopStateOf(stack')].exactness = Exactness

\* with every guard dropped, the outer state holds the extra it was built with
NoGuardOpen == \A i \in DOMAIN stack : stack[i].kind # "rebind"
OriginalExtra == (call = "state" /\ NoGuardOpen) => stack[1].extra = extra

\* C14: when the guard returned by rebind_extra is dropped, the state's extra
\* is again the value it had immediately before rebind_extra was called,
\* whatever was done through the guard; for properly nested rebinds, once
\* all guards are dropped (innermost first) the extra is the original value.
C14_RebindRestoresExtra == [][DropRestores]_vars /\ []OriginalExtra

\* two nested rebinds, each changing the extra, both dropped: the extra is
\* the original one
C14_Witness ==
    /\ call = "state"
    /\ Len(calls) = 4
    /\ calls[1][1] = "rebind_extra" /\ calls[1][2] # calls[1][3]
    /\ calls[2][1] = "rebind_extra" /\ calls[2][2] # calls[2][3]
    /\ calls[3][1] = "drop"
    /\ calls[4][1] = "drop"
    /\ Len(stack) = 1
    /\ stack[1].extra = extra

----------------------------------------------------------------------------
(* C15 *)

InputDone == call = "input" /\ pc = "done"

\* the representation does not define a lax method of its own
LaxNotOverridden == input.lax = None

----------------------------------------------------------------------------
(* C16 *)

\* the JSON numbers
IsNumeric(v) == v.kind \in {"Int", "Uint", "BigInt", "Float"}

\* the numbers 0 and 1: the integers, and the floats equal to them
IsZeroOrOne(v) ==
    \/ v.kind = "Int" /\ v.i \in {0, 1}
    \/ v.kind = "Float" /\ v.i \in {0, 2}

\* the boolean of 0 and of 1
BoolOfNumber(v) == IF v.kind = "Float" THEN v.i = 2 ELSE v.i = 1

\* C16: lax numeric-to-bool coercion of JSON input accepts only 0 and 1;
\* every other number (an integer other than 0/1, a float with integral
\* value other than 0/1, a non-integral float) is rejected with the bool
\* type error, not a value/parsing error; in strict mode every number is
\* rejected with the bool type error.
C16_AsStated ==
    (JsonDone /\ validator.type = "bool" /\ IsNumeric(input)) =>
        IF ~validator.strict /\ IsZeroOrOne(input)
        THEN result = ValidationMatch("lax", JsonBool(BoolOfNumber(input)))
        ELSE IsTypeMismatch(result, "bool")

----------------------------------------------------------------------------
(* C17 *)

\* the line errors the key / value sub-validator returned for item i, in the
\* order it returned them, each with the location the dict validator gives it
KeyGroup(i) ==
    IF KeyReturned(i, "LineErrors")
    THEN LET es == key_validate(Items[i]).errors
         IN [j \in DOMAIN es |->
                [es[j] EXCEPT !.loc = KeyErrorLoc(Items[i].key, es[j].loc)]]
    ELSE <<>>
ValueGroup(i) ==
    IF ValueReturned(i, "LineErrors")
    THEN LET es == value_validate(Items[i]).errors
         IN [j \in DOMAIN es |->
                [es[j] EXCEPT !.loc = ValueErrorLoc(Items[i].key, es[j].loc)]]
    ELSE <<>>

\* the groups of the first n items in the order of the walk: item by item,
\* the key's group before the value's
RECURSIVE ErrorsInWalkOrder(_)
ErrorsInWalkOrder(n) ==
    IF n = 0 THEN <<>>
    ELSE ErrorsInWalkOrder(n - 1) \o KeyGroup(n) \o ValueGroup(n)

\* C17: the order of the line errors returned by the dict validator is
\* deterministic and follows the walk: errors of an earlier-iterated item
\* precede those of a later one, within one item the key's errors precede the
\* value's, each group in the order the sub-validator returned them; the
\* sequence is a function of the input, so validating the same input twice
\* gives the same sequence.
C17_ErrorsInWalkOrder ==
    (call = "dict" /\ input.kind = "Object") =>
        /\ errors = ErrorsInWalkOrder(idx)
        /\ (WalkCompleted /\ errors # <<>>) =>
              /\ result.tag = "LineErrors"
              /\ result.errors = ErrorsInWalkOrder(Len(Items))

\* two items, the first failing key and value with two line errors each, the
\* second failing its value: five errors, in the order of the walk
C17_Witness ==
    /\ WalkCompleted
    /\ Len(Items) = 2
    /\ Items[1].kkind = "err2" /\ Items[1].vkind = "err2"
    /\ Items[2].kkind = "same" /\ Items[2].vkind = "err"
    /\ Len(Returned) = 5
    /\ Returned[1].type = "KeyErr" /\ Returned[2].type = "KeyErr2"
    /\ Returned[3].type = "ValueErr" /\ Returned[4].type = "ValueErr2"
    /\ Returned[5].type = "ValueErr"
    /\ Head(Returned[5].loc) = LocS(Items[2].key)

----------------------------------------------------------------------------
(* C18 *)

\* the path `loc` is the inner path P with exactly `outer` put in front
Prepended(loc, outer, P) ==
    /\ Len(loc) = Len(outer) + Len(P)
    /\ SubSeq(loc, 1, Len(outer)) = outer
    /\ SubSeq(loc, Len(outer) + 1, Len(loc)) = P

\* the line error e of a sub-validator leaves the dict validator with its
\* inner path behind the segments `outer`
LeavesWith(e, outer) ==
    \E j \in DOMAIN Returned :
        /\ Returned[j].type = e.type
        /\ Prepended(Returned[j].loc, outer, e.loc)

\* C18: location paths are built by prepending as errors unwind through the
\* dict validator: a value error with inner path P leaves with [key] ++ P, a
\* key error with inner path P leaves with [key, "[key]"] ++ P, key being the
\* item's key as a location item; P is never reordered or truncated.
C18_PathsPrepended ==
    (WalkCompleted /\ result.tag = "LineErrors") =>
        \A i \in DOMAIN Items :
            /\ ValueReturned(i, "LineErrors") =>
                  \A e \in Range(value_validate(Items[i]).errors) :
                      LeavesWith(e, <<as_loc_item(Items[i].key)>>)
            /\ KeyReturned(i, "LineErrors") =>
                  \A e \in Range(key_validate(Items[i]).errors) :
                      LeavesWith(e, <<as_loc_item(Items[i].key), LocS("[key]")>>)

\* a key error with inner path [1, "z"] and a value error with inner path
\* ["x", "y"] of the item "a" leave with ["a", "[key]", 1, "z"] and
\* ["a", "x", "y"]
C18_Witness ==
    /\ WalkCompleted
    /\ Len(Items) >= 1
    /\ Items[1].kkind = "err2" /\ Items[1].vkind = "err2"
    /\ \E j \in DOMAIN Returned :
          Returned[j].loc = <<LocS("a"), LocS("[key]"), LocI(1), LocS("z")>>
    /\ \E j \in DOMAIN Returned :
          Returned[j].loc = <<LocS("a"), LocS("x"), LocS("y")>>

----------------------------------------------------------------------------
(* C19 *)

\* the output of a first validation has been validated again, strictly
JsonRedone == call = "json" /\ pc = "redone"

\* the first validation was lax
FirstWasLax == calls[1][2] = FALSE

\* C19: idempotence: validating an already-normalized output again with the
\* same validator in strict mode succeeds and returns an equal value: for the
\* JSON targets bool, int and float, the value a successful (lax) validation
\* produced is accepted by strict validation of the same target and returned
\* unchanged.
C19_StrictAcceptsOutput ==
    JsonRedone =>
        /\ result.tag = "Ok"
        /\ result.value[2] = Unwrap(output)
        /\ input = Unwrap(output)

\* the string "1.5", laxly validated as a float, gives 1.5, which strict
\* float validation returns as it is
C19_Witness ==
    /\ JsonRedone
    /\ validator.type = "float"
    /\ FirstWasLax
    /\ output = Some(JsonFloat(3))
    /\ result.tag = "Ok"
    /\ result.value[2] = JsonFloat(3)

----------------------------------------------------------------------------
(* C20 *)

\* the descents that have not returned yet, and the identities they entered
OpenDescents == {i \in DOMAIN stack : stack[i].kind = "descent"}
BeingValidated == {stack[i].id : i \in OpenDescents}

\* the call has ended with the fatal recursion error
Fatal == pc = "done" /\ result = InternalErr("RecursionLoop")

\* one guard for the call: every state, the outer one and the nested ones of
\* with_new_extra, refers to it, and it holds exactly the open descents
GuardShared ==
    (call = "state") =>
        /\ \A i \in DOMAIN stack :
              (stack[i].kind = "state") => stack[i].recursion_guard = "call"
        /\ recursion_guards["call"].ids = BeingValidated
        /\ recursion_guards["call"].depth = Cardinality(OpenDescents)

\* a descent is refused, fatally, exactly when its identity is being validated
\* already or the depth would exceed the limit; otherwise it is entered
DescentStep ==
    (call = "state" /\ Len(calls') = Len(calls) + 1
        /\ calls'[Len(calls')][1] = "descend") =>
        LET id == calls'[Len(calls')][2] IN
        IF id \in BeingValidated \/ Cardinality(OpenDescents) + 1 > RecursionLimit
        THEN Fatal' /\ stack' = stack
        ELSE /\ pc' = "run"
             /\ stack' = Append(stack, DescentFrame(id))

\* a return leaves the identity and gives the depth back
ReturnStep ==
    (call = "state" /\ Len(calls') = Len(calls) + 1
        /\ calls'[Len(calls')][1] = "return") =>
        /\ Top.kind = "descent"
        /\ calls'[Len(calls')][2] = Top.id
        /\ stack' = Pop
        /\ pc' = "run"

\* C20: a descent records the input's identity in the guard and a return
\* removes it (Active -> Guarded -> Active); the call ends with the fatal
\* recursion error when the depth would exceed the limit or an identity that is
\* being validated is entered again, so a container that contains itself always
\* ends fatally; and one recursion guard serves the outer state and every
\* nested state created by with_new_extra.
C20_RecursionGuarded == [][DescentStep /\ ReturnStep]_vars /\ []GuardShared

\* a container is entered, a nested state is created with with_new_extra, and
\* the container is met again inside it: the call ends fatally
C20_Witness ==
    /\ call = "state"
    /\ Len(calls) = 3
    /\ calls[1] = <<"descend", 1>>
    /\ calls[2][1] = "with_new_extra"
    /\ calls[3] = <<"descend", 1>>
    /\ Fatal

----------------------------------------------------------------------------
(* C21 *)

\* the dict validator has asked the input for its mapping
DictExtracted == call = "dict" /\ pc # "start"

\* the strictness the override and the validator's setting give
OverrideElseOwn == IF IsSome(extra.strict) THEN Unwrap(extra.strict) ELSE validator.strict

\* C21: the per-call strictness override takes precedence over the validator's
\* own setting: strict_or(default) is the override when one is set and default
\* otherwise, and the dict validator hands exactly strict_or(self.strict) to
\* the input's mapping extraction.
C21_OverrideTakesPrecedence ==
    DictExtracted =>
        /\ calls[1] = <<"validate_dict", OverrideElseOwn>>
        /\ \A i \in 2..Len(calls) : calls[i][1] # "validate_dict"

\* a lax validator called with the override Some(TRUE) extracts strictly
C21_Witness ==
    /\ DictExtracted
    /\ validator.strict = FALSE
    /\ extra.strict = Some(TRUE)
    /\ calls[1] = <<"validate_dict", TRUE>>

----------------------------------------------------------------------------
(* C22 *)

\* the input is a string holding a datetime whose fractional seconds run past
\* the microseconds
ExcessFraction ==
    /\ input.kind = "String"
    /\ input.text.form = "datetime"
    /\ input.text.excess

\* C22 (as stated): the microsecond-precision-overflow policy configured by
\* the caller is applied wherever a datetime is parsed from a string, the parse
\* of the date validator's lax fallback included: with the policy Error, an
\* input whose fractional seconds exceed microsecond precision is rejected.
C22_AsStated ==
    (DateDone /\ validator.microseconds_precision = "Error" /\ ExcessFraction)
        => result.tag # "Ok"

----------------------------------------------------------------------------
(* C23 *)

\* what the datetime attempt of the fallback returned
TheDatetimeAttempt == validate_datetime(input, FALSE, "Truncate")

\* the line errors are all datetime-parsing errors
AllDatetimeParsing(es) == \A i \in DOMAIN es : es[i].type = "DatetimeParsing"

\* the same line errors, typed DateFromDatetimeParsing, the rest as it was
Retyped(es) ==
    [i \in DOMAIN es |->
        [type |-> "DateFromDatetimeParsing", loc |-> es[i].loc, error |-> es[i].error]]

\* C23: when the datetime attempt of the lax fallback fails: if all its line
\* errors are datetime-parsing errors, each is returned re-typed as
\* DateFromDatetimeParsing with message and location unchanged; if one of them
\* is of another kind, the date error is returned and none of the datetime
\* errors; an internal error or an omit of the attempt is returned as it is.
C23_FallbackFailure ==
    (DateDone /\ FallbackAttempted /\ TheDatetimeAttempt.tag # "Ok") =>
        /\ output = None
        /\ CASE TheDatetimeAttempt.tag = "LineErrors" ->
                    IF AllDatetimeParsing(TheDatetimeAttempt.errors)
                    THEN result = LineErrors(Retyped(TheDatetimeAttempt.errors))
                    ELSE result = TheDateError
             [] OTHER -> result = TheDatetimeAttempt

\* two datetime-parsing errors came back and both are returned re-typed
C23_Witness ==
    /\ DateDone
    /\ FallbackAttempted
    /\ TheDatetimeAttempt.tag = "LineErrors"
    /\ Len(TheDatetimeAttempt.errors) = 2
    /\ AllDatetimeParsing(TheDatetimeAttempt.errors)
    /\ result.tag = "LineErrors"
    /\ Len(result.errors) = 2
    /\ result.errors[1] = [type |-> "DateFromDatetimeParsing", loc |-> <<LocI(0)>>, error |-> "TooShort"]
    /\ result.errors[2].type = "DateFromDatetimeParsing"

----------------------------------------------------------------------------
(* C24 *)

\* the today constraint of the validator, when it has one
HasTodayConstraint == IsSome(validator.constraints)
TodayConstraint == Unwrap(Unwrap(validator.constraints).today)

\* the clock was read, and what it read
ClockRead == \E i \in DOMAIN calls : calls[i][1] = "today"
Now == calls[Len(calls)][2]

\* today's date at the constraint's UTC offset
TodayAtOffset == (Now + TodayConstraint.utc_offset) \div SecondsPerDay

\* the date obtained complies with the constraint
Compliant ==
    IF TodayConstraint.op = "Past"
    THEN Unwrap(output).day < TodayAtOffset
    ELSE Unwrap(output).day > TodayAtOffset

\* C24: with a today constraint the date validator compares the validated
\* date, also one obtained through the datetime fallback, with today's date at
\* the configured UTC offset: a date that does not comply is rejected with
\* DatePast for a Past constraint and DateFuture for a Future one, a compliant
\* date is returned; with no constraint no comparison is made and every
\* validated date is returned.
C24_TodayConstraint ==
    (DateDone /\ IsSome(output)) =>
        IF HasTodayConstraint
        THEN /\ ClockRead
             /\ IF Compliant
                THEN result = Ok(Unwrap(output))
                ELSE FailedWith(IF TodayConstraint.op = "Past"
                                THEN "DatePast" ELSE "DateFuture")
        ELSE ~ClockRead /\ result = Ok(Unwrap(output))

\* day 1, obtained from a datetime, must lie in the future; at 23:00 UTC of
\* day 0 it is day 1 already one hour east, and the date is refused
C24_Witness ==
    /\ DateDone
    /\ FallbackAttempted
    /\ output = Some(Date(1))
    /\ HasTodayConstraint
    /\ TodayConstraint.op = "Future"
    /\ TodayConstraint.utc_offset = SecondsPerHour
    /\ ClockRead
    /\ Now = 23 * SecondsPerHour
    /\ FailedWith("DateFuture")

----------------------------------------------------------------------------
(* C25 *)

\* a structural extraction has returned
ShapeDone == call = "shape" /\ pc = "done"

\* the type error of the kind asked for
ShapeTypeError(target) ==
    CASE target = "dict" -> "DictType"
      [] target = "list" -> "ListType"
      [] target = "tuple" -> "TupleType"
      [] target = "set" -> "SetType"
      [] target = "frozenset" -> "FrozenSetType"
      [] OTHER -> "IterableType"

\* what the iteration yielded
IterItems == result.value[2]

\* C25: structural extraction from a JSON-tree value succeeds only for the
\* matching shape and otherwise fails with the type error of the kind asked
\* for, whatever the strictness: validate_dict takes only an Object;
\* validate_list, validate_tuple, validate_set and validate_frozenset only an
\* Array; iteration takes an Array, a String (one item per character) and an
\* Object (its keys, in order) and fails with IterableType on the rest.
C25_ShapeDecidesExtraction ==
    ShapeDone =>
        CASE validator.type = "dict" ->
                IF input.kind = "Object"
                THEN result = Ok(<<"JsonObject", input.keys>>)
                ELSE FailedWith("DictType")
          [] validator.type \in {"list", "tuple", "set", "frozenset"} ->
                IF input.kind = "Array"
                THEN result = Ok(<<"JsonArray", input.items>>)
                ELSE FailedWith(ShapeTypeError(validator.type))
          [] OTHER ->
                CASE input.kind = "Array" ->
                        result.tag = "Ok" /\ IterItems = input.items
                  [] input.kind = "String" ->
                        /\ result.tag = "Ok"
                        /\ Len(IterItems) = Len(input.s)
                        /\ \A i \in 1..Len(input.s) :
                              IterItems[i].kind = "String" /\ IterItems[i].s = <<input.s[i]>>
                  [] input.kind = "Object" ->
                        /\ result.tag = "Ok"
                        /\ Len(IterItems) = Len(input.keys)
                        /\ \A i \in 1..Len(input.keys) :
                              IterItems[i].kind = "String" /\ IterItems[i].s = input.keys[i]
                  [] OTHER -> FailedWith("IterableType")

\* an Object of two keys is iterated, strictly: its keys come out in order
C25_Witness ==
    /\ ShapeDone
    /\ validator = [type |-> "iter", strict |-> TRUE]
    /\ input = TreeObject(<<<<"b">>, <<"a", "b">>>>)
    /\ result = Ok(<<"iter", <<TreeString(<<"b">>), TreeString(<<"a", "b">>)>>>>)

----------------------------------------------------------------------------
(* C26 *)

\* a time, datetime or timedelta conversion has returned
TemporalDone == call = "temporal" /\ pc = "done"

\* the type error of the kind asked for
TemporalTypeError ==
    CASE validator.type = "time" -> "TimeType"
      [] validator.type = "datetime" -> "DatetimeType"
      [] OTHER -> "TimeDeltaType"

\* the value was taken for conversion: no type error came back
Taken == ~FailedWith(TemporalTypeError)

\* C26: for JSON-tree input, strict time, datetime and timedelta conversion
\* take only a String and reject every other value with the type error of the
\* kind; lax conversion takes an Int and a Float too; a BigInt in lax time
\* conversion is rejected with a time-parsing (too large) error, not with the
\* time type error.
C26_TemporalKinds ==
    TemporalDone =>
        IF validator.strict
        THEN Taken <=> input.kind = "String"
        ELSE IF validator.type = "time" /\ input.kind = "BigInt"
             THEN result = ParsingError("TimeParsing", "TimeTooLarge")
             ELSE Taken <=> input.kind \in {"String", "Int", "Float"}

\* a BigInt, laxly converted to a time: too large
C26_Witness ==
    /\ TemporalDone
    /\ validator.type = "time"
    /\ ~validator.strict
    /\ input.kind = "BigInt"
    /\ FailedWith("TimeParsing")
    /\ result.errors[1].error = "TimeTooLarge"

----------------------------------------------------------------------------
(* C27 *)

\* the output holds the value of item i
InOutput(i) == \E o \in DOMAIN output : output[o][2] = <<"v", Items[i].key>>

\* the key and the value of item i both validated
BothValidated(i) == KeyReturned(i, "Ok") /\ ValueReturned(i, "Ok")

\* a later item was set under the same output key
Overwritten(i) ==
    \E j \in DOMAIN Items :
        /\ j > i
        /\ BothValidated(j)
        /\ key_validate(Items[j]).value = key_validate(Items[i]).value

\* C27: in the dict validator a recoverable key failure does not skip the
\* item's value: the value sub-validator is still run and its errors are
\* recorded too, so one item can contribute key and value errors; a key that
\* returns omit skips the value validation of the item; and an item is
\* inserted in the output only when its key and its value both validated.
C27_KeyFailureKeepsValue ==
    WalkCompleted =>
        \A i \in DOMAIN Items :
            /\ KeyReturned(i, "LineErrors") => (ValueRan(i) /\ ItemErrorsReported(i))
            /\ KeyReturned(i, "Omit") => ~ValueRan(i)
            /\ InOutput(i) => BothValidated(i)
            /\ BothValidated(i) => (InOutput(i) \/ Overwritten(i))

\* the first item fails on its key and on its value and both errors are
\* returned; the key of the second returns omit and its value is left alone
C27_Witness ==
    /\ WalkCompleted
    /\ Len(Items) = 2
    /\ KeyReturned(1, "LineErrors") /\ ValueReturned(1, "LineErrors")
    /\ Reported("KeyErr", KeyErrorLoc(Items[1].key, <<>>))
    /\ Reported("ValueErr", ValueErrorLoc(Items[1].key, <<>>))
    /\ KeyReturned(2, "Omit") /\ ~ValueRan(2)
    /\ output = <<>>

----------------------------------------------------------------------------
(* C28 *)

\* the states of the stack whose exactness is unknown
UnknownStates ==
    {i \in DOMAIN stack : stack[i].kind = "state" /\ stack[i].exactness = None}

\* the step assigns a tier to the innermost state directly
AssignsTier == \E e \in Exactnesses : Did("seed", e)

\* a state just made by ValidationState::new has its exactness unknown
NewStateUnknown ==
    (call = "state" /\ calls = <<>>) =>
        (Len(stack) = 1 /\ stack[1].kind = "state" /\ stack[1].exactness = None)

\* an unknown exactness stays unknown through every operation but the direct
\* assignment of a tier to that state: set_exactness_ceiling, whatever its
\* argument, and the return of a nested state included
UnknownStays ==
    (call = "state") =>
        \A i \in UnknownStates :
            (i \in DOMAIN stack' /\ ~(AssignsTier /\ i = TopState)) =>
                stack'[i].exactness = None

\* set_exactness_unknown leaves the exactness unknown
UnknownSet ==
    (call = "state" /\ Did("set_exactness_unknown", "")) =>
        stack'[TopState].exactness = None

\* C28: a new ValidationState starts with its exactness unknown, and unknown
\* absorbs ceiling updates: while the exactness is unknown,
\* set_exactness_ceiling with any argument leaves it unknown, and after
\* set_exactness_unknown it stays unknown until a caller assigns a tier.
C28_UnknownAbsorbs == [][UnknownStays /\ UnknownSet]_vars /\ []NewStateUnknown

\* a tier is assigned, the exactness is set unknown, and a ceiling of Lax
\* leaves it unknown
C28_Witness ==
    /\ call = "state"
    /\ Len(calls) = 3
    /\ calls[1] = <<"seed", "Exact">>
    /\ calls[2] = <<"set_exactness_unknown", "">>
    /\ calls[3] = <<"set_exactness_ceiling", "Lax">>
    /\ Exactness = None

----------------------------------------------------------------------------
(* C29 *)

\* what the strict validation of the input returned
StrictResult == Unwrap(output)

\* C29: strict acceptance implies lax acceptance with the same result: for
\* every JSON-tree value (and every String used as an input) and each of the
\* targets str, bool, int and float, if validation with strict = true succeeds
\* then validation with strict = false succeeds with the same value and the
\* same exact / strict / lax tag; the tag lax is never returned when strict is
\* true.
C29_StrictImpliesLax ==
    /\ (call = "pair" /\ pc \in {"strict", "done"} /\ StrictResult.tag = "Ok") =>
          StrictResult.value[1] \in {"exact", "strict"}
    /\ (call = "pair" /\ pc = "done" /\ StrictResult.tag = "Ok") =>
          /\ result.tag = "Ok"
          /\ result.value[2] = StrictResult.value[2]
          /\ result.value[1] = StrictResult.value[1]

\* the Int 1 is a strict match for a float, 1.0, in both modes
C29_Witness ==
    /\ call = "pair" /\ pc = "done"
    /\ validator.type = "float"
    /\ input = JsonInt(1)
    /\ StrictResult = ValidationMatch("strict", JsonFloat(2))
    /\ result = ValidationMatch("strict", JsonFloat(2))
    /\ calls = <<<<"validate_float", TRUE>>, <<"validate_float", FALSE>>>>

----------------------------------------------------------------------------
(* C30 *)

\* both conversions of a StringMapping have returned
SmDone == call = "string_mapping" /\ pc = "done"

\* what the strict conversion returned
SmStrictResult == Unwrap(output)

\* the type error of a kind
SmTypeError(kind) ==
    CASE kind = "str" -> "StringType"
      [] kind = "bytes" -> "BytesType"
      [] kind = "bool" -> "BoolType"
      [] kind = "int" -> "IntType"
      [] kind = "float" -> "FloatType"
      [] kind = "dict" -> "DictType"
      [] kind = "list" -> "ListType"
      [] kind = "tuple" -> "TupleType"
      [] kind = "set" -> "SetType"
      [] kind = "frozenset" -> "FrozenSetType"
      [] kind = "iter" -> "IterableType"
      [] kind = "date" -> "DateType"
      [] kind = "time" -> "TimeType"
      [] kind = "datetime" -> "DatetimeType"
      [] OTHER -> "TimeDeltaType"

SmCollections == {"list", "tuple", "set", "frozenset", "iter"}
SmScalars == SmKinds \ (SmCollections \cup {"dict"})

\* C30: for the string-mapping representation strictness has no effect: the
\* strict and the lax conversion of every StringMapping value return the same
\* result for every kind.  A String is parsed into bool, int, float, date,
\* time, datetime and timedelta in both modes and fails dict extraction with
\* DictType; a Mapping succeeds for dict extraction only and fails every
\* scalar conversion with the type error of the kind; list, tuple, set,
\* frozenset and iteration fail for both variants.
C30_StrictnessHasNoEffect ==
    SmDone =>
        /\ result = SmStrictResult
        /\ (validator.type \in SmCollections) => FailedWith(SmTypeError(validator.type))
        /\ (validator.type = "dict") =>
              IF input.kind = "Mapping" THEN result.tag = "Ok" ELSE FailedWith("DictType")
        /\ (validator.type \in SmScalars) =>
              IF input.kind = "Mapping"
              THEN FailedWith(SmTypeError(validator.type))
              ELSE ~FailedWith(SmTypeError(validator.type))

\* the string "yes" is the bool true strictly and laxly
C30_Witness ==
    /\ SmDone
    /\ validator.type = "bool"
    /\ input = SmString("yes", JunkText, TRUE)
    /\ SmStrictResult = Ok(JsonBool(TRUE))
    /\ result = Ok(JsonBool(TRUE))
    /\ calls = <<<<"bool", TRUE>>, <<"bool", FALSE>>>>

====
